---------------------------- MODULE Spec2Model ----------------------------
(***************************************************************************)
(* A model of MerKurio: the bit-parallel matchers BNDMq / BNDM with their  *)
(* mask preprocessing, the pattern preparer, the algorithm selector and    *)
(* the record loops of the extract and tag drivers.                        *)
(*                                                                         *)
(* Byte strings are sequences of byte values (0..255).  A machine word     *)
(* (usize) is the set of the indices of its one-bits, a subset of          *)
(* 0..W-1, so that the word keeps its width: a left shift drops the bits   *)
(* that leave the word.  Rust's 0-based text[k] is text[k+1] here.         *)
(***************************************************************************)
EXTENDS Integers, Sequences, FiniteSets, TLC

VARIABLES
    pattern,      \* matcher run: the pattern handed to BNDMq::new / BNDM::new
    qgram,        \* matcher run: the q handed to BNDMq::new
    text,         \* matcher run: the text searched
    build,        \* "debug" (overflow checks on) or "release" (wrapping shifts)
    bndmq,        \* result of BNDMq::new: an Ok matcher or an Err
    bndm,         \* result of BNDM::new
    iter,         \* the Matches iterator: [live, i, n]
    yielded,      \* offsets returned by Matches::next so far
    lastItem,     \* what the last call of Matches::next returned
    calls,        \* number of calls of Matches::next made
    found,        \* result of find_match ("unset" before the call)
    all,          \* result of find_all ("unset" before the call)
    pc,           \* position of the run
    cli,          \* the command line as parsed (never modified)
    args,         \* the driver's mutable copy of the arguments
    kmer_input,   \* where the patterns come from: [source, list]
    pattern_list, \* result of parse_pattern_list
    matchers,     \* the automaton or the BNDMq collection of the run
    input,        \* the records read so far (of the first file)
    input2,       \* the records read so far of the second file
    written,      \* the records written to the output (first sink)
    written2,     \* the records written to the second sink of a paired run
    twin,         \* what the same run with invert_match flipped has written
    counters,     \* the run counters
    events,       \* the match events handed to the text logger
    jevents,      \* the match events handed to the JSON logger
    record,       \* the record buffer of tag after its last iteration
    logger,       \* the BufferedLogger: [buffer, writer, buffer_size, records]
    log_sink,     \* the bytes the BufferedLogger's writer has received
    json_logger,  \* the JsonLogger: [state, buffer, writer, buffer_size, first]
    json_sink,    \* the pieces the JsonLogger's writer has received
    lcall,        \* the logger method that returned last
    summary,      \* how often each logger's summary was written by the driver
    flags,        \* the command line of an argument-validation run
    outcome,      \* what the parser and check_log_flag_conflict answered
    tuned         \* what tune_q_value answered in a tuner run

matcherVars == <<pattern, qgram, text, build, bndmq, bndm, iter, yielded,
                 lastItem, calls, found, all>>

runVars == <<input, input2, written, written2, twin, counters, events,
             jevents, record>>

cliVars == <<cli, args, kmer_input, pattern_list, matchers, runVars>>

loggerVars == <<logger, log_sink, json_logger, json_sink, lcall, summary>>

flagVars == <<flags, outcome, tuned>>

vars == <<matcherVars, cliVars, loggerVars, flagVars, pc>>

----------------------------------------------------------------------------
(* Program constants and bounds of the model *)

\* width of usize in bits on the 64-bit target
W == 64

\* exhaustive part: every pattern up to this length over Sigma
MaxPatLen == 3
\* exhaustive part: every text up to this length over Sigma
MaxTextLen == 5
\* calls of Matches::next made after the iterator is exhausted
MaxExtraCalls == 1

Bytes == 0 .. 255
\* the letters the matcher runs draw from: b'A' and b'C'
Sigma == {65, 67}

----------------------------------------------------------------------------
(* Machine words *)

Max(S) == CHOOSE x \in S : \A y \in S : y <= x

Zero == {}
\* 1 << k, for k < W
Bit(k) == {k}
\* a << k, for k < W: bits shifted past W-1 are lost
Shl(a, k) == {b + k : b \in {x \in a : x + k < W}}
And(a, b) == a \cap b
Or(a, b) == a \cup b
\* unsigned a >= b
WordGE(a, b) == a = b \/ \E x \in a \ b : \A y \in b \ a : y < x
\* (1 << k) - 1, for k < W
LowOnes(k) == 0 .. (k - 1)

RECURSIVE Pow2(_)
Pow2(k) == IF k = 0 THEN 1 ELSE 2 * Pow2(k - 1)
RECURSIVE WordVal(_)
\* numeric value of a word with no bit at index 30 or above
WordVal(a) == IF a = {} THEN 0 ELSE Pow2(Max(a)) + WordVal(a \ {Max(a)})

----------------------------------------------------------------------------
(* Byte strings *)

RECURSIVE Strings(_)
\* all strings over Sigma of length exactly n
Strings(n) == IF n = 0 THEN {<<>>}
              ELSE {Append(s, c) : s \in Strings(n - 1), c \in Sigma}

StringsUpTo(n) == UNION {Strings(k) : k \in 0 .. n}

Rep(c, n) == [k \in 1 .. n |-> c]

RECURSIVE Digits(_)
\* `{index}`: the decimal digits of a number
Digits(n) ==
    IF n < 10 THEN <<48 + n>> ELSE Digits(n \div 10) \o <<48 + (n % 10)>>

\* naive substring scan: pattern p occurs in t at 0-based offset s
OccursAt(t, p, s) ==
    /\ s >= 0
    /\ s + Len(p) <= Len(t)
    /\ \A k \in 1 .. Len(p) : t[s + k] = p[k]

NaiveOffsets(t, p) == {s \in 0 .. Len(t) : OccursAt(t, p, s)}

RECURSIVE SortedSeq(_)
\* the elements of a finite set of numbers in increasing order
SortedSeq(S) == IF S = {} THEN <<>>
                ELSE LET mn == CHOOSE x \in S : \A y \in S : x <= y
                     IN <<mn>> \o SortedSeq(S \ {mn})

----------------------------------------------------------------------------
(* core::str::from_utf8: whether a byte string is well-formed UTF-8 *)

\* from_utf8(s).is_ok(): the string starts with a leading byte, and every
\* leading byte is followed by exactly the continuation bytes of its
\* sequence.  IsCont: a continuation byte, 0x80 .. 0xBF.  Width: the length
\* of the sequence a leading byte opens, 0 for a byte that opens none (a
\* continuation byte, 0xC0, 0xC1, 0xF5 .. 0xFF).  SecondOk: the second byte
\* of a sequence is 0xA0 .. 0xBF after 0xE0 (no overlong form), 0x80 .. 0x9F
\* after 0xED (no surrogate), 0x90 .. 0xBF after 0xF0, 0x80 .. 0x8F after
\* 0xF4 (nothing above U+10FFFF), else any continuation byte
IsUtf8(s) ==
    LET IsCont(b) == b >= 128 /\ b <= 191
        Width(b) == IF b <= 127 THEN 1
                    ELSE IF b >= 194 /\ b <= 223 THEN 2
                    ELSE IF b >= 224 /\ b <= 239 THEN 3
                    ELSE IF b >= 240 /\ b <= 244 THEN 4
                    ELSE 0
        SecondOk(lead, b) ==
            IF lead = 224 THEN b >= 160 /\ b <= 191
            ELSE IF lead = 237 THEN b >= 128 /\ b <= 159
            ELSE IF lead = 240 THEN b >= 144 /\ b <= 191
            ELSE IF lead = 244 THEN b >= 128 /\ b <= 143
            ELSE IsCont(b)
    IN /\ Len(s) > 0 => ~IsCont(s[1])
       /\ \A i \in 1 .. Len(s) :
             IsCont(s[i]) \/
                LET w == Width(s[i])
                IN /\ w > 0
                   /\ i + w - 1 <= Len(s)
                   /\ \A k \in 1 .. (w - 1) : IsCont(s[i + k])
                   /\ w > 1 => SecondOk(s[i], s[i + 1])
                   /\ i + w <= Len(s) => ~IsCont(s[i + w])

----------------------------------------------------------------------------
(* pattern_preprocessing.rs: generate_masks *)

\* variant: the bit order reversed (1 << j)
MaskBitReversed(m, j) == Bit(j)

\* 1 << (m - j - 1), the bit of pattern position j
MaskBit(m, j) == Bit(m - j - 1)

\* one pass of `for j in 0..m { masks[pattern[j]] |= 1 << (m - j - 1) }`
MaskStep(p, c) ==
    [j |-> c.j + 1,
     masks |-> [c.masks EXCEPT ![p[c.j + 1]] = Or(@, MaskBit(Len(p), c.j))]]

RECURSIVE MaskLoop(_, _)
MaskLoop(p, c) == IF c.j >= Len(p) THEN c ELSE MaskLoop(p, MaskStep(p, c))

\* `1 << (m - 1)`.  For m = 0 the subtraction underflows: with overflow
\* checks (debug) the program panics, without them (release) m - 1 wraps to
\* the largest usize and the shift amount is taken modulo W, which gives
\* 1 << (W - 1)
AcceptState(m, bld) ==
    IF m >= 1 THEN [ok |-> TRUE, state |-> Bit(m - 1)]
    ELSE IF bld = "debug" THEN [ok |-> FALSE, state |-> Zero]
    ELSE [ok |-> TRUE, state |-> Bit(W - 1)]

generate_masks(p, bld) ==
    IF Len(p) > W
    THEN [tag |-> "Err", err |-> "PatternTooLong", arg |-> Len(p)]
    ELSE LET acc == AcceptState(Len(p), bld)
         IN IF ~acc.ok THEN [tag |-> "Panic"]
            ELSE [tag |-> "Ok",
                  masks |-> MaskLoop(p, [j |-> 0,
                                         masks |-> [b \in Bytes |-> Zero]]).masks,
                  accept |-> acc.state]

----------------------------------------------------------------------------
(* pattern_matching.rs: BNDMq *)

\* variant: q is validated before the pattern is tested for emptiness
BNDMqNewQFirst(p, q) ==
    IF q = 0 \/ q > Len(p)
    THEN [tag |-> "Err", err |-> "InvalidQGramLength", arg |-> q]
    ELSE IF Len(p) = 0 THEN [tag |-> "Err", err |-> "EmptyPattern", arg |-> 0]
    \* the pattern is not empty here: both builds compute the same table
    ELSE LET g == generate_masks(p, "release")
         IN IF g.tag # "Ok" THEN g
            ELSE [tag |-> "Ok", m |-> Len(p), q |-> q,
                  masks |-> g.masks, accept |-> g.accept]

BNDMqNew(p, q) ==
    IF Len(p) = 0 THEN [tag |-> "Err", err |-> "EmptyPattern", arg |-> 0]
    ELSE IF q = 0 \/ q > Len(p)
    THEN [tag |-> "Err", err |-> "InvalidQGramLength", arg |-> q]
    \* the pattern is not empty here: both builds compute the same table
    ELSE LET g == generate_masks(p, "release")
         IN IF g.tag # "Ok" THEN g
            ELSE [tag |-> "Ok", m |-> Len(p), q |-> q,
                  masks |-> g.masks, accept |-> g.accept]

Panic == [item |-> "Panic", value |-> 0, i |-> 0]

PanicScan == [item |-> "Panic", value |-> 0, i |-> 0, j |-> 0, state |-> Zero]

\* one pass of `for ii in 0..q-1 { state_mask &= masks[text[i + ii]] << (ii + 1) }`
\* ok becomes FALSE when an index leaves the text or a shift amount reaches W
SeedStep(b, t, i, c) ==
    IF i + c.ii >= Len(t) \/ c.ii + 1 >= W
    THEN [ok |-> FALSE, ii |-> c.ii, state |-> Zero]
    ELSE [ok |-> TRUE, ii |-> c.ii + 1,
          state |-> And(c.state, Shl(b.masks[t[i + c.ii + 1]], c.ii + 1))]

RECURSIVE SeedLoop(_, _, _, _)
SeedLoop(b, t, i, c) ==
    IF c.ii >= b.q - 1 \/ ~c.ok THEN c ELSE SeedLoop(b, t, i, SeedStep(b, t, i, c))

\* state_mask after the q-gram at text[i-1 .. i+q-2] has been read
Seed(b, t, i) ==
    LET c == SeedLoop(b, t, i, [ok |-> TRUE, ii |-> 0, state |-> b.masks[t[i]]])
    IN <<c.ok, c.state>>

\* variant: a recognised pattern prefix does not move self.i (the branch
\* `self.i = j` is dropped), so every shift is a full window
NextScanStepNoPrefix(b, t, first, c) ==
    IF c.j = 0 THEN PanicScan
    ELSE LET j == c.j - 1
             hit == WordGE(c.state, b.accept)
         IN IF hit /\ ~(j > first)
            THEN [item |-> "Some", value |-> j, i |-> c.i + (b.m - b.q + 1),
                  j |-> j, state |-> c.state]
            ELSE IF j = 0 THEN PanicScan
            ELSE LET st == And(Shl(c.state, 1), b.masks[t[j]])
                 IN [item |-> IF st = Zero THEN "Break" ELSE "Run",
                     value |-> 0, i |-> c.i, j |-> j, state |-> st]

\* one pass through the body of the inner `loop` of Matches::next; c holds
\* self.i, j and state_mask on entry.  item: "Run" (loop again), "Break"
\* (state_mask == 0), "Some" (return Some(value)), "Panic"
NextScanStep(b, t, first, c) ==
    IF c.j = 0 THEN PanicScan
    ELSE LET j == c.j - 1
             hit == WordGE(c.state, b.accept)
         IN IF hit /\ ~(j > first)
            THEN [item |-> "Some", value |-> j, i |-> c.i + (b.m - b.q + 1),
                  j |-> j, state |-> c.state]
            ELSE IF j = 0 THEN PanicScan
            ELSE LET st == And(Shl(c.state, 1), b.masks[t[j]])
                 IN [item |-> IF st = Zero THEN "Break" ELSE "Run",
                     value |-> 0,
                     i |-> IF hit /\ j > first THEN j ELSE c.i,
                     j |-> j, state |-> st]

RECURSIVE NextScan(_, _, _, _)
\* the inner `loop` of Matches::next
NextScan(b, t, first, c) ==
    IF c.item # "Run" THEN c ELSE NextScan(b, t, first, NextScanStep(b, t, first, c))

RECURSIVE NextWindow(_, _, _, _)
\* the outer `while` of Matches::next
NextWindow(b, t, i, n) ==
    IF n < b.q THEN Panic
    ELSE IF ~(i <= n - b.q + 1) THEN [item |-> "None", value |-> 0, i |-> i]
    ELSE IF i < 1 \/ i - 1 >= Len(t) THEN Panic
    ELSE LET seed == Seed(b, t, i)
         IN IF ~seed[1] THEN Panic
            ELSE IF seed[2] = Zero
            THEN NextWindow(b, t, i + (b.m - b.q + 1), n)
            ELSE IF i < b.m - b.q + 1 THEN Panic
            ELSE LET r == NextScan(b, t, i - (b.m - b.q + 1),
                                   [item |-> "Run", value |-> 0, i |-> i,
                                    j |-> i, state |-> seed[2]])
                 IN IF r.item = "Break"
                    THEN NextWindow(b, t, r.i + (b.m - b.q + 1), n)
                    ELSE [item |-> r.item, value |-> r.value, i |-> r.i]

\* variant: the early return for a text shorter than the pattern is left
\* out
MatchesNextUnguarded(b, t, i, n) ==
    IF b.q > b.m THEN Panic ELSE NextWindow(b, t, i, n)

\* variant: an exhausted iterator goes back to its first window
MatchesNextRewinding(b, t, i, n) ==
    IF b.m > n THEN [item |-> "None", value |-> 0, i |-> i]
    ELSE IF b.q > b.m THEN Panic
    ELSE LET r == NextWindow(b, t, i, n)
         IN IF r.item = "None" THEN [r EXCEPT !.i = b.m - b.q + 1] ELSE r

\* one call of Matches::next on the iterator state (i, n)
MatchesNext(b, t, i, n) ==
    IF b.m > n THEN [item |-> "None", value |-> 0, i |-> i]
    ELSE IF b.q > b.m THEN Panic
    ELSE NextWindow(b, t, i, n)

\* BNDMq::find_iter: the fresh iterator
find_iter(b, t) == [live |-> TRUE, i |-> b.m - b.q + 1, n |-> Len(t)]

\* one pass through the body of the inner `loop` of BNDMq::find_matches
\* with the callback of find_match (|_| true): on_match(j) ends the search
FindScanStep(b, t, first, c) ==
    IF c.j = 0 THEN PanicScan
    ELSE LET j == c.j - 1
             hit == WordGE(c.state, b.accept)
         IN IF hit /\ ~(j > first)
            THEN [item |-> "Some", value |-> j, i |-> c.i, j |-> j,
                  state |-> c.state]
            ELSE IF j = 0 THEN PanicScan
            ELSE LET st == And(Shl(c.state, 1), b.masks[t[j]])
                 IN [item |-> IF st = Zero THEN "Break" ELSE "Run",
                     value |-> 0,
                     i |-> IF hit /\ j > first THEN j ELSE c.i,
                     j |-> j, state |-> st]

RECURSIVE FindScan(_, _, _, _)
\* the inner `loop` of BNDMq::find_matches
FindScan(b, t, first, c) ==
    IF c.item # "Run" THEN c ELSE FindScan(b, t, first, FindScanStep(b, t, first, c))

RECURSIVE FindWindow(_, _, _, _)
\* the outer `while` of BNDMq::find_matches
FindWindow(b, t, i, n) ==
    IF n < b.q THEN Panic
    ELSE IF ~(i <= n - b.q + 1) THEN [item |-> "None", value |-> 0, i |-> i]
    ELSE IF i < 1 \/ i - 1 >= Len(t) THEN Panic
    ELSE LET seed == Seed(b, t, i)
         IN IF ~seed[1] THEN Panic
            ELSE IF seed[2] = Zero
            THEN FindWindow(b, t, i + (b.m - b.q + 1), n)
            ELSE IF i < b.m - b.q + 1 THEN Panic
            ELSE LET r == FindScan(b, t, i - (b.m - b.q + 1),
                                   [item |-> "Run", value |-> 0, i |-> i,
                                    j |-> i, state |-> seed[2]])
                 IN IF r.item = "Break"
                    THEN FindWindow(b, t, r.i + (b.m - b.q + 1), n)
                    ELSE [item |-> r.item, value |-> r.value, i |-> r.i]

\* variant: a text exactly as long as the pattern is rejected up front
find_matchesGuardGE(b, t) ==
    IF b.m >= Len(t) THEN [item |-> "None", value |-> 0, i |-> 0]
    ELSE IF b.q > b.m THEN Panic
    ELSE FindWindow(b, t, b.m - b.q + 1, Len(t))

\* BNDMq::find_matches(text, |_| true): "Some" is `return true`, "None" is
\* the final `false`
find_matches(b, t) ==
    IF b.m > Len(t) THEN [item |-> "None", value |-> 0, i |-> 0]
    ELSE IF b.q > b.m THEN Panic
    ELSE FindWindow(b, t, b.m - b.q + 1, Len(t))

\* BNDMq::find_match: "true", "false", or "panic"
find_match(b, t) ==
    LET r == find_matches(b, t)
    IN IF r.item = "Panic" THEN "panic"
       ELSE IF r.item = "Some" THEN "true" ELSE "false"

RECURSIVE Collect(_, _, _, _, _)
\* BNDMq::find_all: find_iter(text).collect()
Collect(b, t, i, n, acc) ==
    LET r == MatchesNext(b, t, i, n)
    IN IF r.item = "Some" THEN Collect(b, t, r.i, n, Append(acc, r.value))
       ELSE IF r.item = "None" THEN [tag |-> "Ok", val |-> acc]
       ELSE [tag |-> "Panic", val |-> acc]

find_all(b, t) ==
    LET it == find_iter(b, t) IN Collect(b, t, it.i, it.n, <<>>)

----------------------------------------------------------------------------
(* pattern_matching.rs: the legacy BNDM *)

BNDMNew(p) ==
    IF Len(p) = 0 THEN [tag |-> "Err", err |-> "EmptyPattern", arg |-> 0]
    \* the pattern is not empty here: both builds compute the same table
    ELSE LET g == generate_masks(p, "release")
         IN IF g.tag # "Ok" THEN g
            ELSE [tag |-> "Ok", m |-> Len(p), masks |-> g.masks,
                  accept |-> g.accept]

\* (1 << m) - 1 on usize.  A shift by m >= W overflows: with overflow checks
\* (debug) the program panics, without them (release) the shift amount is
\* taken modulo W
InitialState(m, bld) ==
    IF m < W THEN [ok |-> TRUE, state |-> LowOnes(m)]
    ELSE IF bld = "debug" THEN [ok |-> FALSE, state |-> Zero]
    ELSE [ok |-> TRUE, state |-> LowOnes(m % W)]

\* one pass through the body of `while state_mask != 0` of BNDM::find_all and
\* BNDM::find_match; c holds j, last and state_mask on entry
BNDMScanStep(b, t, i, c) ==
    IF c.j = 0 \/ i + c.j - 1 >= Len(t)
    THEN [item |-> "Panic", j |-> 0, last |-> 0, state |-> Zero]
    ELSE LET st == And(c.state, b.masks[t[i + c.j]])
             j == c.j - 1
         IN IF And(st, b.accept) # Zero
            THEN IF j > 0
                 THEN [item |-> IF Shl(st, 1) = Zero THEN "End" ELSE "Run",
                       j |-> j, last |-> j, state |-> Shl(st, 1)]
                 ELSE [item |-> "Match", j |-> j, last |-> c.last, state |-> st]
            ELSE [item |-> IF Shl(st, 1) = Zero THEN "End" ELSE "Run",
                  j |-> j, last |-> c.last, state |-> Shl(st, 1)]

RECURSIVE BNDMScan(_, _, _, _)
BNDMScan(b, t, i, c) ==
    IF c.item # "Run" THEN c ELSE BNDMScan(b, t, i, BNDMScanStep(b, t, i, c))

\* the window at i: j = m, last = m, state_mask = (1 << m) - 1, then the scan
BNDMWindow(b, t, i, bld) ==
    LET s0 == InitialState(b.m, bld)
    IN IF ~s0.ok THEN [item |-> "Panic", j |-> 0, last |-> 0, state |-> Zero]
       ELSE BNDMScan(b, t, i,
                     [item |-> IF s0.state = Zero THEN "End" ELSE "Run",
                      j |-> b.m, last |-> b.m, state |-> s0.state])

RECURSIVE BNDMFindAllLoop(_, _, _, _, _)
\* `while i <= n - self.m` of BNDM::find_all
BNDMFindAllLoop(b, t, i, occ, bld) ==
    IF ~(i <= Len(t) - b.m) THEN [tag |-> "Ok", val |-> occ]
    ELSE LET r == BNDMWindow(b, t, i, bld)
         IN IF r.item = "Panic" THEN [tag |-> "Panic", val |-> occ]
            ELSE BNDMFindAllLoop(b, t, i + r.last,
                                 IF r.item = "Match" THEN Append(occ, i) ELSE occ,
                                 bld)

BNDMFindAll(b, t, bld) ==
    IF b.m > Len(t) THEN [tag |-> "Ok", val |-> <<>>]
    ELSE BNDMFindAllLoop(b, t, 0, <<>>, bld)

RECURSIVE BNDMFindMatchLoop(_, _, _, _)
\* `while i <= n - self.m` of BNDM::find_match
BNDMFindMatchLoop(b, t, i, bld) ==
    IF ~(i <= Len(t) - b.m) THEN "false"
    ELSE LET r == BNDMWindow(b, t, i, bld)
         IN IF r.item = "Panic" THEN "panic"
            ELSE IF r.item = "Match" THEN "true"
            ELSE BNDMFindMatchLoop(b, t, i + r.last, bld)

BNDMFindMatch(b, t, bld) ==
    IF b.m > Len(t) THEN "false" ELSE BNDMFindMatchLoop(b, t, 0, bld)

----------------------------------------------------------------------------
(* Inputs of the matcher runs *)

\* word-sized patterns: three shapes of each length around W
WordShapes(n) ==
    { Rep(65, n),
      Rep(65, n - 1) \o <<67>>,
      [k \in 1 .. n |-> IF k % 2 = 1 THEN 65 ELSE 67] }

WordLens == {W - 1, W, W + 1}

WordPatterns == UNION {WordShapes(n) : n \in WordLens}

Pads == {<<>>, <<65>>, <<67>>}

\* texts around a word-sized pattern p: p itself, or a run of A one letter
\* longer, with a pad on both sides
WordTexts(p) ==
    { a \o s \o b : a \in Pads, b \in Pads, s \in {p, Rep(65, Len(p) + 1)} }

WordQs == {0, 1, 6, W, W + 1}

\* the pattern "3$$X3" of the preprocessing tests
MaskTestPattern == <<51, 36, 36, 88, 51>>

MatcherInputs ==
    { <<p, q, t>> : p \in StringsUpTo(MaxPatLen), q \in 0 .. (MaxPatLen + 1),
                    t \in StringsUpTo(MaxTextLen) }
    \cup
    UNION { { <<p, q, t>> : q \in WordQs, t \in WordTexts(p) } :
            p \in WordPatterns }
    \cup
    { <<MaskTestPattern, q, t>> :
        q \in {1, 3, 5},
        t \in {MaskTestPattern, MaskTestPattern \o <<36>> \o MaskTestPattern} }

NoIter == [live |-> FALSE, i |-> 0, n |-> 0]

NoArgs == [cmd |-> "none"]

NoList == [tag |-> "unset"]

\* no record has been read
RunIdle ==
    /\ input = <<>>
    /\ input2 = <<>>
    /\ written = <<>>
    /\ written2 = <<>>
    /\ twin = <<>>
    /\ counters = [nb_records_tot |-> 0]
    /\ events = <<>>
    /\ jevents = <<>>
    /\ record = [id |-> 0, seq |-> <<>>, tags |-> <<>>]

\* the command-line driver has not been started
CliIdle ==
    /\ RunIdle
    /\ cli = NoArgs
    /\ args = NoArgs
    /\ kmer_input = [source |-> "none", list |-> <<>>]
    /\ pattern_list = NoList
    /\ matchers = [kind |-> "none", tag |-> "unset"]

\* no logger has been constructed
NoLogger == [state |-> "none"]

LoggerIdle ==
    /\ logger = NoLogger
    /\ log_sink = <<>>
    /\ json_logger = NoLogger
    /\ json_sink = <<>>
    /\ lcall = [name |-> "none", n |-> 0]
    /\ summary = [text |-> 0, json |-> 0]

\* no command line is being validated
FlagsIdle ==
    /\ flags = [cmd |-> "none"]
    /\ outcome = [clap |-> "unset", check |-> "unset"]
    /\ tuned = [tag |-> "unset", val |-> 0]

\* no matcher object is under test
MatcherIdle ==
    /\ pattern = <<>>
    /\ qgram = 0
    /\ text = <<>>
    /\ build = "release"
    /\ bndmq = [tag |-> "None"]
    /\ bndm = [tag |-> "None"]
    /\ iter = NoIter
    /\ yielded = <<>>
    /\ lastItem = "unset"
    /\ calls = 0
    /\ found = "unset"
    /\ all = [tag |-> "unset", val |-> <<>>]

----------------------------------------------------------------------------
(* The BNDMq run: new, then find_match / find_all / find_iter and next *)

InitBNDMq ==
    /\ LoggerIdle
    /\ FlagsIdle
    /\ \E c \in MatcherInputs :
          /\ pattern = c[1]
          /\ qgram = c[2]
          /\ text = c[3]
    /\ build = "release"
    /\ bndmq = [tag |-> "None"]
    /\ bndm = [tag |-> "None"]
    /\ iter = NoIter
    /\ yielded = <<>>
    /\ lastItem = "unset"
    /\ calls = 0
    /\ found = "unset"
    /\ all = [tag |-> "unset", val |-> <<>>]
    /\ pc = "start"
    /\ CliIdle

\* BNDMq::new(pattern, q)
NewBNDMq ==
    /\ pc = "start"
    /\ bndmq' = BNDMqNew(pattern, qgram)
    /\ pc' = IF bndmq'.tag = "Ok" THEN "built" ELSE "failed"
    /\ UNCHANGED <<pattern, qgram, text, build, bndm, iter, yielded, lastItem,
                   calls, found, all>>
    /\ UNCHANGED <<flagVars, loggerVars, cliVars>>

\* bndmq.find_match(text)
CallFindMatch ==
    /\ pc = "built"
    /\ found = "unset"
    /\ found' = find_match(bndmq, text)
    /\ UNCHANGED <<pattern, qgram, text, build, bndmq, bndm, iter, yielded,
                   lastItem, calls, all, pc>>
    /\ UNCHANGED <<flagVars, loggerVars, cliVars>>

\* bndmq.find_all(text)
CallFindAll ==
    /\ pc = "built"
    /\ all.tag = "unset"
    /\ all' = find_all(bndmq, text)
    /\ UNCHANGED <<pattern, qgram, text, build, bndmq, bndm, iter, yielded,
                   lastItem, calls, found, pc>>
    /\ UNCHANGED <<flagVars, loggerVars, cliVars>>

\* bndmq.find_iter(text)
CallFindIter ==
    /\ pc = "built"
    /\ ~iter.live
    /\ iter' = find_iter(bndmq, text)
    /\ UNCHANGED <<pattern, qgram, text, build, bndmq, bndm, yielded, lastItem,
                   calls, found, all, pc>>
    /\ UNCHANGED <<flagVars, loggerVars, cliVars>>

\* one call of Matches::next; after None the caller may call again
CallNext ==
    /\ pc = "built"
    /\ iter.live
    /\ lastItem # "Panic"
    /\ lastItem = "None" => calls < Len(yielded) + 1 + MaxExtraCalls
    /\ LET r == MatchesNext(bndmq, text, iter.i, iter.n)
       IN /\ lastItem' = r.item
          /\ iter' = IF r.item = "Panic" THEN iter ELSE [iter EXCEPT !.i = r.i]
          /\ yielded' = IF r.item = "Some" THEN Append(yielded, r.value)
                        ELSE yielded
    /\ calls' = calls + 1
    /\ UNCHANGED <<pattern, qgram, text, build, bndmq, bndm, found, all, pc>>
    /\ UNCHANGED <<flagVars, loggerVars, cliVars>>

NextBNDMq == NewBNDMq \/ CallFindMatch \/ CallFindAll \/ CallFindIter \/ CallNext

SpecBNDMq == InitBNDMq /\ [][NextBNDMq]_vars

----------------------------------------------------------------------------
(* The legacy BNDM run: new, then find_all and find_match *)

InitBNDM ==
    /\ LoggerIdle
    /\ FlagsIdle
    /\ \E c \in MatcherInputs :
          /\ pattern = c[1]
          /\ text = c[3]
    /\ qgram = 0
    /\ build \in {"debug", "release"}
    /\ bndmq = [tag |-> "None"]
    /\ bndm = [tag |-> "None"]
    /\ iter = NoIter
    /\ yielded = <<>>
    /\ lastItem = "unset"
    /\ calls = 0
    /\ found = "unset"
    /\ all = [tag |-> "unset", val |-> <<>>]
    /\ pc = "start"
    /\ CliIdle

\* BNDM::new(pattern)
NewBNDM ==
    /\ pc = "start"
    /\ bndm' = BNDMNew(pattern)
    /\ pc' = IF bndm'.tag = "Ok" THEN "built" ELSE "failed"
    /\ UNCHANGED <<pattern, qgram, text, build, bndmq, iter, yielded, lastItem,
                   calls, found, all>>
    /\ UNCHANGED <<flagVars, loggerVars, cliVars>>

\* bndm.find_all(text)
CallBNDMFindAll ==
    /\ pc = "built"
    /\ all.tag = "unset"
    /\ all' = BNDMFindAll(bndm, text, build)
    /\ UNCHANGED <<pattern, qgram, text, build, bndmq, bndm, iter, yielded,
                   lastItem, calls, found, pc>>
    /\ UNCHANGED <<flagVars, loggerVars, cliVars>>

\* bndm.find_match(text)
CallBNDMFindMatch ==
    /\ pc = "built"
    /\ found = "unset"
    /\ found' = BNDMFindMatch(bndm, text, build)
    /\ UNCHANGED <<pattern, qgram, text, build, bndmq, bndm, iter, yielded,
                   lastItem, calls, all, pc>>
    /\ UNCHANGED <<flagVars, loggerVars, cliVars>>

NextBNDM == NewBNDM \/ CallBNDMFindAll \/ CallBNDMFindMatch

SpecBNDM == InitBNDM /\ [][NextBNDM]_vars

----------------------------------------------------------------------------
(* The pattern preparer: helpers.rs, parse_pattern_list *)

\* longest pattern list the preparer runs draw
MaxListLen == 3

RECURSIVE LexLess(_, _)
\* a < b in the byte-lexicographic order of String
LexLess(a, b) ==
    IF Len(b) = 0 THEN FALSE
    ELSE IF Len(a) = 0 THEN TRUE
    ELSE IF a[1] # b[1] THEN a[1] < b[1]
    ELSE LexLess(Tail(a), Tail(b))

\* str::to_lowercase on ASCII text
to_lowercase(s) ==
    [k \in 1 .. Len(s) |-> IF s[k] \in 65 .. 90 THEN s[k] + 32 ELSE s[k]]

\* str::to_uppercase on ASCII text
to_uppercase(s) ==
    [k \in 1 .. Len(s) |-> IF s[k] \in 97 .. 122 THEN s[k] - 32 ELSE s[k]]

\* the upper-case letters the complement exchanges (A-T, C-G and the IUPAC
\* codes); the lower-case letters are exchanged alike
ComplementPairs ==
    { <<65, 84>>, <<67, 71>>, <<82, 89>>, <<75, 77>>, <<66, 86>>,
      <<68, 72>> }

\* complement of one base: case is kept, any other byte passes through
complement(n) ==
    LET u == IF n \in 97 .. 122 THEN n - 32 ELSE n
        d == n - u
    IN IF \E pr \in ComplementPairs : pr[1] = u
       THEN (CHOOSE pr \in ComplementPairs : pr[1] = u)[2] + d
       ELSE IF \E pr \in ComplementPairs : pr[2] = u
       THEN (CHOOSE pr \in ComplementPairs : pr[2] = u)[1] + d
       ELSE n

\* pattern.as_bytes().reverse_complement()
reverse_complement(s) ==
    [k \in 1 .. Len(s) |-> complement(s[Len(s) + 1 - k])]

\* sequence::canonical: the smaller of the sequence and its reverse complement
canonical(s) ==
    LET rc == reverse_complement(s)
    IN IF LexLess(rc, s) THEN rc ELSE s

\* one element of a sequence mapped through f

\* pattern_list.retain(|x| !x.is_empty())
RetainNonEmpty(sq) == SelectSeq(sq, LAMBDA x : Len(x) > 0)

RECURSIVE InsertSorted(_, _)
\* x put before the first element of the sorted sequence that is not below it
InsertSorted(sq, x) ==
    IF Len(sq) = 0 THEN <<x>>
    ELSE IF LexLess(sq[1], x) THEN <<sq[1]>> \o InsertSorted(Tail(sq), x)
    ELSE <<x>> \o sq

\* variant: the list is left in its input order
sort_unstableSkipped(sq) == sq

RECURSIVE sort_unstable(_)
\* pattern_list.sort_unstable(): the list in ascending byte order
sort_unstable(sq) ==
    IF Len(sq) = 0 THEN <<>>
    ELSE InsertSorted(sort_unstable(Tail(sq)), sq[1])

RECURSIVE dedup(_)
\* pattern_list.dedup(): consecutive equal elements collapse into the first
dedup(sq) ==
    IF Len(sq) <= 1 THEN sq
    ELSE IF sq[1] = sq[2] THEN dedup(Tail(sq))
    ELSE <<sq[1]>> \o dedup(Tail(sq))

\* the white space str::trim removes (ASCII part)
WhiteSpace == {9, 10, 11, 12, 13, 32}

RECURSIVE TrimStart(_)
TrimStart(s) ==
    IF Len(s) > 0 /\ s[1] \in WhiteSpace THEN TrimStart(Tail(s)) ELSE s

RECURSIVE TrimEnd(_)
TrimEnd(s) ==
    IF Len(s) > 0 /\ s[Len(s)] \in WhiteSpace
    THEN TrimEnd(SubSeq(s, 1, Len(s) - 1))
    ELSE s

\* line.trim()
trim(s) == TrimEnd(TrimStart(s))

\* read_kmers_from_file on the lines of a readable file: empty lines and
\* lines starting with '#' or '>' are skipped, the others are trimmed
read_kmers_from_file(lines) ==
    LET kept == SelectSeq(lines, LAMBDA l : Len(l) > 0 /\ l[1] \notin {35, 62})
        kmer_list == [k \in 1 .. Len(kept) |-> trim(kept[k])]
    IN IF Len(kmer_list) = 0
       THEN [tag |-> "Err", err |-> "NoKmersInFile"]
       ELSE [tag |-> "Ok", val |-> kmer_list]

\* the list the preparer starts from: the file has priority over the sequence
InitialList(kin) ==
    IF kin.source = "unreadable" THEN [tag |-> "Err", err |-> "ReadError"]
    ELSE IF kin.source = "file" THEN read_kmers_from_file(kin.list)
    ELSE IF kin.source = "seq" THEN [tag |-> "Ok", val |-> kin.list]
    ELSE [tag |-> "Err", err |-> "NoSequence"]

\* the case conversion of parse_pattern_list
CaseFolded(sq, lowercase, uppercase) ==
    IF lowercase THEN [k \in 1 .. Len(sq) |-> to_lowercase(sq[k])]
    ELSE IF uppercase THEN [k \in 1 .. Len(sq) |-> to_uppercase(sq[k])]
    ELSE sq

\* variant: no reverse complement is added
WithReverseComplementsSkipped(sq, rc) == sq

\* the reverse complements appended after the list
WithReverseComplements(sq, rc) ==
    IF rc THEN sq \o [k \in 1 .. Len(sq) |-> reverse_complement(sq[k])] ELSE sq

\* every pattern replaced by its canonical form
\* variant: the canonical flag is ignored
CanonicalizedSkipped(sq, can) == sq

Canonicalized(sq, can) == IF can THEN [k \in 1 .. Len(sq) |-> canonical(sq[k])] ELSE sq

\* parse_pattern_list(kmer_file, kmer_seq, reverse_complement, canonical,
\* lowercase, uppercase)
parse_pattern_list(kin, rc, can, lowercase, uppercase) ==
    LET first == InitialList(kin)
    IN IF first.tag = "Err" THEN first
       ELSE LET folded == CaseFolded(first.val, lowercase, uppercase)
                ext == WithReverseComplements(folded, rc)
                cano == Canonicalized(ext, can)
                final == dedup(sort_unstable(RetainNonEmpty(cano)))
            IN IF Len(final) = 0
               THEN [tag |-> "Err", err |-> "NoKmersFound"]
               ELSE [tag |-> "Ok", val |-> final]

NoQ == [some |-> FALSE, val |-> 0]

SomeQ(q) == [some |-> TRUE, val |-> q]

NoMatchers == [kind |-> "none", tag |-> "unset"]

\* the arguments of a run with every option at its default
DefaultArgs ==
    [cmd |-> "extract", reverse_complement |-> FALSE, canonical |-> FALSE,
     lowercase |-> FALSE, uppercase |-> FALSE, case_insensitive |-> FALSE,
     q_size |-> NoQ, aho_corasick |-> FALSE, invert_match |-> FALSE,
     filter_matching |-> FALSE, suppress_output |-> FALSE,
     out_log |-> FALSE, json_log |-> FALSE, paired |-> FALSE]

\* the lines and sequences the preparer runs draw from: "", "A", "a", "AC",
\* "GT", "AT", " " and ">A"
LinePool ==
    { <<>>, <<65>>, <<97>>, <<65, 67>>, <<71, 84>>, <<65, 84>>, <<32>>,
      <<62, 65>> }

ListsUpTo(pool, n) == UNION { [1 .. k -> pool] : k \in 0 .. n }

KmerInputs ==
    { [source |-> src, list |-> l] :
        src \in {"file", "seq"}, l \in ListsUpTo(LinePool, MaxListLen) }
    \cup { [source |-> src, list |-> <<>>] : src \in {"unreadable", "none"} }

\* the transform flags of the preparer; the function takes any combination
TransformArgs ==
    { [DefaultArgs EXCEPT !.cmd = "prepare", !.reverse_complement = rc,
                          !.canonical = can, !.lowercase = lo,
                          !.uppercase = up] :
        rc \in BOOLEAN, can \in BOOLEAN, lo \in BOOLEAN, up \in BOOLEAN }

\* the transform flags on the command line of extract and tag
CommandLineArgs ==
    { [a EXCEPT !.cmd = c] : a \in TransformArgs, c \in {"extract", "tag"} }

\* the argument groups "kmer-preprocessing" and "case-sensitivity" of the
\* parser: at most one argument of each group
ClapGroups(a) ==
    /\ ~(a.canonical /\ a.reverse_complement)
    /\ Cardinality({f \in {"case_insensitive", "lowercase", "uppercase"} :
                        a[f]}) <= 1

\* the argument group "kmers" of the parser, required: one of --kmer-seq
\* and --kmer-file is given, and --kmer-seq (num_args = 1..) has at least
\* one value
KmersGroup(kin) ==
    /\ kin.source # "none"
    /\ kin.source = "seq" => Len(kin.list) >= 1

\* a call of the preparer on its own, or a command line in front of the
\* argument parser
InitPatterns ==
    /\ LoggerIdle
    /\ FlagsIdle
    /\ MatcherIdle
    /\ kmer_input \in KmerInputs
    /\ \/ cli \in TransformArgs /\ pc = "start"
       \/ cli \in CommandLineArgs /\ pc = "cli"
    /\ args = cli
    /\ pattern_list = NoList
    /\ matchers = NoMatchers
    /\ RunIdle

\* Cli::parse on the pattern source and the transform flags: a command line
\* that breaks a group, names no pattern source or gives --kmer-seq no value
\* never reaches the driver
ParseCommandLine ==
    /\ pc = "cli"
    /\ pc' = IF ClapGroups(args) /\ KmersGroup(kmer_input)
             THEN "start" ELSE "rejected"
    /\ UNCHANGED <<loggerVars, flagVars, matcherVars, cliVars>>

\* the call of parse_pattern_list
ParsePatternList ==
    /\ pc = "start"
    /\ args.cmd # "none"
    /\ pattern_list' = parse_pattern_list(kmer_input, args.reverse_complement,
                                          args.canonical, args.lowercase,
                                          args.uppercase)
    /\ pc' = IF pattern_list'.tag = "Ok" THEN "prepared" ELSE "failed"
    /\ UNCHANGED <<loggerVars, flagVars, matcherVars,
                   cli, args, kmer_input, matchers, runVars>>

NextPatterns == ParseCommandLine \/ ParsePatternList

SpecPatterns == InitPatterns /\ [][NextPatterns]_vars

----------------------------------------------------------------------------
(* Algorithm selection and matcher construction of the drivers:
   cmd_extract.rs extract_records, cmd_tag.rs tag_records *)

\* pattern count from which Aho-Corasick is recommended
MinPatternsAC == 14
\* longest pattern for which BNDMq is still recommended
MaxLenBNDMq == 64

\* pattern_list.iter().map(|x| x.len()).max()
MaxPatternLen(pl) == Max({Len(pl[k]) : k \in 1 .. Len(pl)})

\* variant: the count threshold is exclusive
recommend_aho_corasickExclusive(pl) ==
    IF Len(pl) = 0 THEN [tag |-> "Panic", val |-> FALSE]
    ELSE [tag |-> "Ok",
          val |-> Len(pl) > MinPatternsAC \/ MaxPatternLen(pl) > MaxLenBNDMq]

\* recommend_aho_corasick(pattern_list); max() of an empty list is unwrapped
\* variant: a pattern one letter over the limit still goes to BNDMq
recommend_aho_corasickLenient(pl) ==
    IF Len(pl) = 0 THEN [tag |-> "Panic", val |-> FALSE]
    ELSE [tag |-> "Ok",
          val |-> Len(pl) >= MinPatternsAC
                  \/ MaxPatternLen(pl) > MaxLenBNDMq + 1]

recommend_aho_corasick(pl) ==
    IF Len(pl) = 0 THEN [tag |-> "Panic", val |-> FALSE]
    ELSE [tag |-> "Ok",
          val |-> Len(pl) >= MinPatternsAC \/ MaxPatternLen(pl) > MaxLenBNDMq]

\* the selection block of the drivers: the value args.aho_corasick takes
SelectedAhoCorasick(a, pl) ==
    IF a.case_insensitive THEN [tag |-> "Ok", val |-> TRUE]
    ELSE IF ~a.q_size.some /\ ~a.aho_corasick THEN recommend_aho_corasick(pl)
    ELSE [tag |-> "Ok", val |-> a.aho_corasick]

\* variant: the length 9 still gets q = 3
tune_q_valueShifted(len) ==
    IF len <= 1 THEN [tag |-> "Ok", val |-> 1]
    ELSE IF len <= 3 THEN [tag |-> "Ok", val |-> 2]
    ELSE IF len <= 9 THEN [tag |-> "Ok", val |-> 3]
    ELSE IF len <= 30 THEN [tag |-> "Ok", val |-> 4]
    ELSE IF len <= 55 THEN [tag |-> "Ok", val |-> 5]
    ELSE IF len <= 64 THEN [tag |-> "Ok", val |-> 6]
    ELSE [tag |-> "Err", val |-> 0]

\* tune_q_value on a pattern of the given length
tune_q_value(len) ==
    IF len <= 1 THEN [tag |-> "Ok", val |-> 1]
    ELSE IF len <= 3 THEN [tag |-> "Ok", val |-> 2]
    ELSE IF len <= 8 THEN [tag |-> "Ok", val |-> 3]
    ELSE IF len <= 30 THEN [tag |-> "Ok", val |-> 4]
    ELSE IF len <= 55 THEN [tag |-> "Ok", val |-> 5]
    ELSE IF len <= 64 THEN [tag |-> "Ok", val |-> 6]
    ELSE [tag |-> "Err", val |-> 0]

RECURSIVE BuildCollection(_, _, _, _)
\* the loop building bndmq_collection: the pinned q or the tuned one, the
\* first constructor error ends the run, a failed tuning is unwrapped
BuildCollection(pl, q_size, k, coll) ==
    IF k > Len(pl) THEN [kind |-> "BNDMq", tag |-> "Ok", coll |-> coll]
    ELSE LET tq == IF q_size.some THEN [tag |-> "Ok", val |-> q_size.val]
                   ELSE tune_q_value(Len(pl[k]))
         IN IF tq.tag # "Ok" THEN [kind |-> "BNDMq", tag |-> "Panic"]
            ELSE LET b == BNDMqNew(pl[k], tq.val)
                 IN IF b.tag = "Ok"
                    THEN BuildCollection(pl, q_size, k + 1, Append(coll, b))
                    ELSE IF b.tag = "Panic"
                    THEN [kind |-> "BNDMq", tag |-> "Panic"]
                    ELSE [kind |-> "BNDMq", tag |-> "Err", err |-> b.err]

\* the matcher construction of the drivers: the automaton when
\* args.aho_corasick is set, the BNDMq collection otherwise
BuildMatcherSet(a, pl) ==
    IF a.aho_corasick
    THEN [kind |-> "AhoCorasick", tag |-> "Ok",
          case_insensitive |-> a.case_insensitive]
    ELSE BuildCollection(pl, a.q_size, 1, <<>>)

\* the counters of a run over n patterns, all zero
ZeroCounters(n) ==
    [nb_records_tot |-> 0, nb_bases |-> 0, nb_hits_tot |-> <<0, 0>>,
     nb_records_hit |-> <<0, 0>>, nb_records_extracted |-> 0,
     pattern_hit_counts |-> [k \in 1 .. n |-> 0]]

\* the selection block: `args.aho_corasick = ...`
SelectAlgorithm ==
    /\ pc = "prepared"
    /\ args.cmd \in {"extract", "tag"}
    /\ LET r == SelectedAhoCorasick(args, pattern_list.val)
       IN /\ args' = IF r.tag = "Ok" THEN [args EXCEPT !.aho_corasick = r.val]
                     ELSE args
          /\ pc' = IF r.tag = "Ok" THEN "selected" ELSE "panic"
    /\ UNCHANGED <<loggerVars, flagVars, matcherVars,
                   cli, kmer_input, pattern_list, matchers,
                   runVars>>

\* the construction of the automaton or of the BNDMq collection
BuildMatchers ==
    /\ pc = "selected"
    /\ matchers' = BuildMatcherSet(args, pattern_list.val)
    /\ pc' = IF matchers'.tag = "Ok" THEN "ready"
             ELSE IF matchers'.tag = "Err" THEN "failed" ELSE "panic"
    /\ counters' = IF matchers'.tag = "Ok"
                   THEN ZeroCounters(Len(pattern_list.val))
                   ELSE counters
    /\ UNCHANGED <<loggerVars, flagVars, matcherVars,
                   cli, args, kmer_input, pattern_list, input,
                   input2, written, written2, twin, events, jevents, record>>

\* the k-th string of length 4 over Sigma in ascending order, k in 0 .. 15
Base(k) ==
    [i \in 1 .. 4 |-> IF (k \div Pow2(4 - i)) % 2 = 1 THEN 67 ELSE 65]

\* n distinct patterns given in descending order: a run of C of the given
\* length after n-1 strings of length 4
PatternsOf(n, len) ==
    [i \in 1 .. n |-> IF i < n THEN Base(n - 1 - i) ELSE Rep(67, len)]

\* pattern counts and lengths around the selection thresholds
SelCounts == {1, 2, MinPatternsAC - 1, MinPatternsAC, MinPatternsAC + 1}

SelLens ==
    {1, 2, 3, 4, 5, 8, 9, 30, 31, 55, 56, MaxLenBNDMq - 1, MaxLenBNDMq,
     MaxLenBNDMq + 1}

\* the algorithm options: -q and -a exclude each other (group "algorithm")
SelectArgs ==
    { x \in { [DefaultArgs EXCEPT !.cmd = c, !.case_insensitive = ci,
                                  !.q_size = q, !.aho_corasick = a] :
                c \in {"extract", "tag"}, ci \in BOOLEAN,
                q \in {NoQ, SomeQ(1), SomeQ(5)}, a \in BOOLEAN } :
        ~(x.q_size.some /\ x.aho_corasick) }

InitSelect ==
    /\ LoggerIdle
    /\ FlagsIdle
    /\ MatcherIdle
    /\ \E n \in SelCounts, len \in SelLens :
          kmer_input = [source |-> "seq", list |-> PatternsOf(n, len)]
    /\ cli \in SelectArgs
    /\ args = cli
    /\ pattern_list = NoList
    /\ matchers = NoMatchers
    /\ RunIdle
    /\ pc = "start"

NextSelect == ParsePatternList \/ SelectAlgorithm \/ BuildMatchers

SpecSelect == InitSelect /\ [][NextSelect]_vars

----------------------------------------------------------------------------
(* The record loop of extract: cmd_extract.rs, extract_records *)

\* most records (or record pairs) a run reads
MaxRecords == 2

RECURSIVE Concat(_)
\* the sequences of a sequence joined in order
Concat(ss) == IF Len(ss) = 0 THEN <<>> ELSE ss[1] \o Concat(Tail(ss))

\* variant: the automaton compares without case whatever its option
ACOccursAtFolded(t, p, s, ci) ==
    /\ s + Len(p) <= Len(t)
    /\ to_lowercase(SubSeq(t, s + 1, s + Len(p))) = to_lowercase(p)

\* ac matches the pattern at the 0-based start s of the text; with
\* ascii_case_insensitive the letters are compared without case
ACOccursAt(t, p, s, ci) ==
    /\ s + Len(p) <= Len(t)
    /\ IF ci
       THEN to_lowercase(SubSeq(t, s + 1, s + Len(p))) = to_lowercase(p)
       ELSE SubSeq(t, s + 1, s + Len(p)) = p

\* a match precedes another in the overlapping iteration of the automaton:
\* earlier end first, at the same end the longer pattern first, then the
\* pattern given first
MatchBefore(pl, x, y) ==
    LET ex == x.start + Len(pl[x.pattern])
        ey == y.start + Len(pl[y.pattern])
    IN \/ ex < ey
       \/ ex = ey /\ x.start < y.start
       \/ ex = ey /\ x.start = y.start /\ x.pattern < y.pattern

RECURSIVE OrderMatches(_, _)
OrderMatches(pl, M) ==
    IF M = {} THEN <<>>
    ELSE LET x == CHOOSE x \in M : \A y \in M \ {x} : MatchBefore(pl, x, y)
         IN <<x>> \o OrderMatches(pl, M \ {x})

\* ac.find_overlapping_iter(seq): every occurrence of every pattern
find_overlapping_iter(pl, ci, t) ==
    OrderMatches(pl, { x \in [pattern : 1 .. Len(pl), start : 0 .. Len(t)] :
                         ACOccursAt(t, pl[x.pattern], x.start, ci) })

\* the offsets bndmq.find_iter(seq) yields for each matcher of the
\* collection, in collection order
CollectionOffsets(coll, t) == [k \in 1 .. Len(coll) |-> find_all(coll[k], t)]

\* a scan of the collection hit a panic
CollectionPanics(coll, t) ==
    \E k \in 1 .. Len(coll) : find_all(coll[k], t).tag = "Panic"

\* variant: the events of one matcher are handed over last offset first
OffsetEventsBackwards(file, rec, k, offs) ==
    [i \in 1 .. Len(offs) |->
        [file |-> file, rec |-> rec, pattern |-> k,
         pos |-> offs[Len(offs) + 1 - i]]]

\* the log events of one matcher on one record, by ascending offset
OffsetEvents(file, rec, k, offs) ==
    [i \in 1 .. Len(offs) |->
        [file |-> file, rec |-> rec, pattern |-> k, pos |-> offs[i]]]

\* variant: only the first match of a record is handed to the loggers
MatchEventsFirstOnly(file, rec, ms) ==
    [i \in 1 .. (IF Len(ms) > 0 THEN 1 ELSE 0) |->
        [file |-> file, rec |-> rec, pattern |-> ms[i].pattern,
         pos |-> ms[i].start]]

\* the log events of the automaton's matches on one record
MatchEvents(file, rec, ms) ==
    [i \in 1 .. Len(ms) |->
        [file |-> file, rec |-> rec, pattern |-> ms[i].pattern,
         pos |-> ms[i].start]]

\* the pattern counters after one increment per element of the index list
Incremented(counts, idxs) ==
    [k \in 1 .. Len(counts) |->
        counts[k] + Cardinality({i \in 1 .. Len(idxs) : idxs[i] = k})]

\* 1 for true, 0 for false
B2N(b) == IF b THEN 1 ELSE 0

\* the early-exit search of the collection without logging: the first
\* matcher with find_match ends the loop
RECURSIVE AnyFindMatch(_, _, _)
AnyFindMatch(coll, texts, k) ==
    IF k > Len(coll) THEN "false"
    ELSE LET r1 == find_match(coll[k], texts[1])
         IN IF r1 = "panic" THEN "panic"
            ELSE IF r1 = "true" THEN "true"
            ELSE IF Len(texts) = 1 THEN AnyFindMatch(coll, texts, k + 1)
            ELSE LET r2 == find_match(coll[k], texts[2])
                 IN IF r2 = "panic" THEN "panic"
                    ELSE IF r2 = "true" THEN "true"
                    ELSE AnyFindMatch(coll, texts, k + 1)

\* logging_active: a text log or a JSON log is requested
logging_active(a) == a.out_log \/ a.json_log

\* the search part of one iteration of the single-file loop on record
\* number rec with sequence t: found_occ, the events handed to the loggers
\* and the counter changes
ScanSingle(a, ms, pl, rec, t, c) ==
    LET log == logging_active(a)
        c1 == IF log THEN [c EXCEPT !.nb_records_tot = @ + 1,
                                    !.nb_bases = @ + Len(t)]
              ELSE c
    IN IF ms.kind = "AhoCorasick"
       THEN LET hits == find_overlapping_iter(pl, ms.case_insensitive, t)
                found_occ == Len(hits) > 0
            IN [panic |-> FALSE, found_occ |-> found_occ,
                events |-> IF log THEN MatchEvents(1, rec, hits) ELSE <<>>,
                counters |->
                  IF log
                  THEN [c1 EXCEPT
                          !.pattern_hit_counts =
                              Incremented(@, [i \in 1 .. Len(hits) |->
                                                 hits[i].pattern]),
                          !.nb_hits_tot[1] = @ + Len(hits),
                          !.nb_records_hit[1] = @ + B2N(found_occ)]
                  ELSE [c1 EXCEPT !.nb_records_hit[1] = @ + B2N(found_occ)]]
       ELSE IF log
       THEN LET offs == CollectionOffsets(ms.coll, t)
                hitIdx == SelectSeq([k \in 1 .. Len(offs) |-> k],
                                    LAMBDA k : Len(offs[k].val) > 0)
                found_occ == Len(hitIdx) > 0
            IN [panic |-> CollectionPanics(ms.coll, t),
                found_occ |-> found_occ,
                events |-> Concat([k \in 1 .. Len(offs) |->
                                     OffsetEvents(1, rec, k, offs[k].val)]),
                counters |->
                  [c1 EXCEPT
                     !.pattern_hit_counts = Incremented(@, hitIdx),
                     !.nb_hits_tot[1] =
                         @ + Len(Concat([k \in 1 .. Len(offs) |->
                                            offs[k].val])),
                     !.nb_records_hit[1] = @ + B2N(found_occ)]]
       ELSE LET r == AnyFindMatch(ms.coll, <<t>>, 1)
            IN [panic |-> r = "panic", found_occ |-> r = "true",
                events |-> <<>>, counters |-> c1]

\* the search part of one iteration of the paired loop on pair number rec
ScanPair(a, ms, pl, rec, t1, t2, c) ==
    LET log == logging_active(a)
        c1 == IF log THEN [c EXCEPT !.nb_records_tot = @ + 2,
                                    !.nb_bases = @ + Len(t1) + Len(t2)]
              ELSE c
    IN IF ms.kind = "AhoCorasick"
       THEN LET h1 == find_overlapping_iter(pl, ms.case_insensitive, t1)
                h2 == find_overlapping_iter(pl, ms.case_insensitive, t2)
                found_occ == Len(h1) > 0 \/ Len(h2) > 0
            IN [panic |-> FALSE, found_occ |-> found_occ,
                events |-> IF log
                           THEN MatchEvents(1, rec, h1) \o
                                MatchEvents(2, rec, h2)
                           ELSE <<>>,
                counters |->
                  IF log
                  THEN [c1 EXCEPT
                          !.pattern_hit_counts =
                              Incremented(@, [i \in 1 .. Len(h1) |->
                                                 h1[i].pattern] \o
                                             [i \in 1 .. Len(h2) |->
                                                 h2[i].pattern]),
                          !.nb_hits_tot[1] = @ + Len(h1),
                          !.nb_hits_tot[2] = @ + Len(h2),
                          !.nb_records_hit[1] = @ + B2N(Len(h1) > 0),
                          !.nb_records_hit[2] = @ + B2N(Len(h2) > 0)]
                  ELSE c1]
       ELSE IF log
       THEN LET o1 == CollectionOffsets(ms.coll, t1)
                o2 == CollectionOffsets(ms.coll, t2)
                idx == [k \in 1 .. Len(o1) |-> k]
                hit1 == SelectSeq(idx, LAMBDA k : Len(o1[k].val) > 0)
                hit2 == SelectSeq(idx, LAMBDA k : Len(o2[k].val) > 0)
            IN [panic |-> CollectionPanics(ms.coll, t1)
                          \/ CollectionPanics(ms.coll, t2),
                found_occ |-> Len(hit1) > 0 \/ Len(hit2) > 0,
                events |-> Concat([k \in 1 .. Len(o1) |->
                                     OffsetEvents(1, rec, k, o1[k].val) \o
                                     OffsetEvents(2, rec, k, o2[k].val)]),
                counters |->
                  [c1 EXCEPT
                     !.pattern_hit_counts = Incremented(@, hit1 \o hit2),
                     !.nb_hits_tot[1] =
                         @ + Len(Concat([k \in 1 .. Len(o1) |-> o1[k].val])),
                     !.nb_hits_tot[2] =
                         @ + Len(Concat([k \in 1 .. Len(o2) |-> o2[k].val])),
                     !.nb_records_hit[1] = @ + B2N(Len(hit1) > 0),
                     !.nb_records_hit[2] = @ + B2N(Len(hit2) > 0)]]
       ELSE LET r == AnyFindMatch(ms.coll, <<t1, t2>>, 1)
            IN [panic |-> r = "panic", found_occ |-> r = "true",
                events |-> <<>>, counters |-> c1]

\* variant: only the text summary is written
WriteSummariesTextOnly(a, sm) ==
    [sm EXCEPT !.text = @ + B2N(logging_active(a))]

\* the code after the record loop: with logging active the summary lines go
\* to the text logger, and a JSON logger is finalized with its summary
WriteSummaries(a, sm) ==
    [text |-> sm.text + B2N(logging_active(a)),
     json |-> sm.json + B2N(a.json_log)]

\* variant: the gate ignores invert_match
ExtractedOnHit(found_occ, invert_match) == found_occ

\* the gate `found_occ != args.invert_match`
Extracted(found_occ, invert_match) == found_occ # invert_match

\* the record sequences the runs read: "", "ACA" and "ac"
SeqPool == { <<>>, <<65, 67, 65>>, <<97, 99>> }

\* the length of a long record id: three log lines with it fill the buffer
\* of the text logger
LongIdLen == 2730

\* the ids (names) a record can carry: its number; for the first record
\* also the byte 0xFF, which is not UTF-8, and, in the runs that follow the
\* bytes of the text log, a long id
RecordIds(rec) ==
    IF rec = 1
    THEN { Digits(rec), <<255>> }
         \cup (IF logger # NoLogger THEN { Rep(114, LongIdLen) } ELSE {})
    ELSE { Digits(rec) }

\* record.id() of the record an event belongs to
EventId(ev, id1, id2) == IF ev.file = 1 THEN id1 ELSE id2

RECURSIVE LoggedPrefix(_, _, _)
\* the events of an iteration that reach the loggers: log_fields of the text
\* logger is called first on every event and panics on an id that is not
\* UTF-8, which ends the run at this event
LoggedPrefix(evs, id1, id2) ==
    IF Len(evs) = 0 THEN <<>>
    ELSE IF ~IsUtf8(EventId(evs[1], id1, id2)) THEN <<>>
    ELSE <<evs[1]>> \o LoggedPrefix(Tail(evs), id1, id2)

\* the pattern lists given to the record runs: "A"; "AC"; "AC", "A"; and
\* "a", "CA"
RunPatternLists ==
    { <<<<65>>>>, <<<<65, 67>>>>, << <<65, 67>>, <<65>> >>,
      << <<97>>, <<67, 65>> >> }

\* the options of extract; -q and -a exclude each other, -S requires a log
ExtractArgs ==
    { x \in { [DefaultArgs EXCEPT !.cmd = "extract",
                                  !.case_insensitive = o[1], !.q_size = o[2],
                                  !.aho_corasick = o[3],
                                  !.invert_match = o[4],
                                  !.suppress_output = o[5], !.out_log = o[6],
                                  !.json_log = o[7], !.paired = o[8]] :
                o \in BOOLEAN \X {NoQ, SomeQ(2)} \X BOOLEAN \X BOOLEAN \X
                      BOOLEAN \X BOOLEAN \X BOOLEAN \X BOOLEAN } :
        /\ ~(x.q_size.some /\ x.aho_corasick)
        /\ x.suppress_output => (x.out_log \/ x.json_log) }

InitExtract ==
    /\ LoggerIdle
    /\ FlagsIdle
    /\ MatcherIdle
    /\ \E l \in RunPatternLists : kmer_input = [source |-> "seq", list |-> l]
    /\ cli \in ExtractArgs
    /\ args = cli
    /\ pattern_list = NoList
    /\ matchers = NoMatchers
    /\ RunIdle
    /\ pc = "start"

\* one iteration of the single-file loop: read a record, search it, gate it
ExtractRecordStep ==
    /\ pc = "ready"
    /\ args.cmd = "extract"
    /\ ~args.paired
    /\ Len(input) < MaxRecords
    /\ \E t \in SeqPool, id \in RecordIds(Len(input) + 1) :
       \E r \in {ScanSingle(args, matchers, pattern_list.val, Len(input) + 1,
                             t, counters)} :
         LET rec == Len(input) + 1
             keep == Extracted(r.found_occ, args.invert_match)
             keepTwin == Extracted(r.found_occ, ~args.invert_match)
             logged == LoggedPrefix(r.events, id, id)
         IN /\ input' = Append(input, [id |-> id, seq |-> t])
            /\ IF r.panic
               THEN /\ pc' = "panic"
                    /\ UNCHANGED <<events, jevents, counters, written, twin>>
               ELSE IF Len(logged) < Len(r.events)
               THEN /\ pc' = "panic"
                    /\ events' = events \o logged
                    /\ jevents' = IF args.json_log THEN jevents \o logged
                                  ELSE jevents
                    /\ UNCHANGED <<counters, written, twin>>
               ELSE /\ pc' = pc
                    /\ events' = events \o r.events
                    /\ jevents' = IF args.json_log THEN jevents \o r.events
                                  ELSE jevents
                    /\ counters' =
                         IF keep
                         THEN [r.counters EXCEPT !.nb_records_extracted = @ + 1]
                         ELSE r.counters
                    /\ written' =
                         IF keep /\ ~args.suppress_output
                         THEN Append(written, [id |-> rec, seq |-> t])
                         ELSE written
                    /\ twin' = IF keepTwin /\ ~args.suppress_output
                               THEN Append(twin, rec) ELSE twin
    /\ UNCHANGED <<flagVars, matcherVars,
                   cli, args, kmer_input, pattern_list, matchers,
                   input2, written2, record>>

\* the iteration in the runs that leave the loggers aside
ExtractRecord == ExtractRecordStep /\ UNCHANGED loggerVars

\* one iteration of the paired loop (the mates of a pair carry the same
\* id): read a record of each file, search
\* both, gate the pair
ExtractPairStep ==
    /\ pc = "ready"
    /\ args.cmd = "extract"
    /\ args.paired
    /\ Len(input) < MaxRecords
    /\ \E t1 \in SeqPool, t2 \in SeqPool, id \in RecordIds(Len(input) + 1) :
       \E r \in {ScanPair(args, matchers, pattern_list.val, Len(input) + 1,
                           t1, t2, counters)} :
         LET rec == Len(input) + 1
             keep == Extracted(r.found_occ, args.invert_match)
             keepTwin == Extracted(r.found_occ, ~args.invert_match)
             logged == LoggedPrefix(r.events, id, id)
         IN /\ input' = Append(input, [id |-> id, seq |-> t1])
            /\ input2' = Append(input2, [id |-> id, seq |-> t2])
            /\ IF r.panic
               THEN /\ pc' = "panic"
                    /\ UNCHANGED <<events, jevents, counters, written,
                                   written2, twin>>
               ELSE IF Len(logged) < Len(r.events)
               THEN /\ pc' = "panic"
                    /\ events' = events \o logged
                    /\ jevents' = IF args.json_log THEN jevents \o logged
                                  ELSE jevents
                    /\ UNCHANGED <<counters, written, written2, twin>>
               ELSE /\ pc' = pc
                    /\ events' = events \o r.events
                    /\ jevents' = IF args.json_log THEN jevents \o r.events
                                  ELSE jevents
                    /\ counters' =
                         IF keep
                         THEN [r.counters EXCEPT !.nb_records_extracted = @ + 2]
                         ELSE r.counters
                    /\ written' =
                         IF keep /\ ~args.suppress_output
                         THEN Append(written, [id |-> rec, seq |-> t1])
                         ELSE written
                    /\ written2' =
                         IF keep /\ ~args.suppress_output
                         THEN Append(written2, [id |-> rec, seq |-> t2])
                         ELSE written2
                    /\ twin' = IF keepTwin /\ ~args.suppress_output
                               THEN Append(twin, rec) ELSE twin
    /\ UNCHANGED <<flagVars, matcherVars,
                   cli, args, kmer_input, pattern_list,
                   matchers, record>>

\* the iteration in the runs that leave the loggers aside
ExtractPair == ExtractPairStep /\ UNCHANGED loggerVars

\* the first file yields a record and the second file has none left: the
\* run fails at this pair
ExtractMissingMate ==
    /\ pc = "ready"
    /\ args.cmd = "extract"
    /\ args.paired
    /\ Len(input) < MaxRecords
    /\ \E t1 \in SeqPool, id \in RecordIds(Len(input) + 1) :
          input' = Append(input, [id |-> id, seq |-> t1])
    /\ pc' = "failed"
    /\ UNCHANGED <<loggerVars, flagVars, matcherVars,
                   cli, args, kmer_input, pattern_list, matchers,
                   input2, written, written2, twin, counters, events,
                   jevents, record>>

\* variant: the length check after the paired loop is left out
PairLengthCheckSkipped(more) == "done"

\* the check after the paired loop: `if reader_2.next().is_some() { bail }`
PairLengthCheck(more) == IF more THEN "failed" ELSE "done"

\* the first file is exhausted: the loop ends; a paired run then reads the
\* second file once more and fails when it still yields a record; otherwise
\* the summaries are written
ExtractEndStep ==
    /\ pc = "ready"
    /\ args.cmd = "extract"
    /\ \E more \in BOOLEAN :
          /\ more => args.paired
          /\ IF more
             THEN \E t2 \in SeqPool, id \in RecordIds(Len(input2) + 1) :
                     input2' = Append(input2, [id |-> id, seq |-> t2])
             ELSE input2' = input2
          /\ pc' = IF args.paired THEN PairLengthCheck(more) ELSE "done"
    /\ summary' = IF pc' = "done" THEN WriteSummaries(args, summary)
                  ELSE summary
    /\ UNCHANGED <<flagVars, matcherVars, cli, args, kmer_input,
                   pattern_list, matchers, input, written, written2, twin,
                   counters, events, jevents, record>>

\* the end of the loop in the runs that leave the loggers aside
ExtractEnd ==
    /\ ExtractEndStep
    /\ UNCHANGED <<logger, log_sink, json_logger, json_sink, lcall>>

NextExtract ==
    \/ ParsePatternList
    \/ SelectAlgorithm
    \/ BuildMatchers
    \/ ExtractRecord
    \/ ExtractPair
    \/ ExtractMissingMate
    \/ ExtractEnd

SpecExtract == InitExtract /\ [][NextExtract]_vars

----------------------------------------------------------------------------
(* The record loop of tag: cmd_tag.rs, tag_records and process_record *)

\* the configured two-byte tag of the run
TagName == "KM"

RECURSIVE SplitComma(_, _)
\* s.split(','): the fields between the commas; cur is the field being read
SplitComma(s, cur) ==
    IF Len(s) = 0 THEN <<cur>>
    ELSE IF s[1] = 44 THEN <<cur>> \o SplitComma(Tail(s), <<>>)
    ELSE SplitComma(Tail(s), Append(cur, s[1]))

RECURSIVE JoinComma(_)
\* kmers_found.join(",")
JoinComma(l) ==
    IF Len(l) = 0 THEN <<>>
    ELSE IF Len(l) = 1 THEN l[1]
    ELSE l[1] \o <<44>> \o JoinComma(Tail(l))

\* record.tags().get(name): the first tag of that name, if any
TagsGet(tags, name) ==
    IF \E i \in 1 .. Len(tags) : tags[i].name = name
    THEN LET i == CHOOSE i \in 1 .. Len(tags) :
                     /\ tags[i].name = name
                     /\ \A j \in 1 .. (i - 1) : tags[j].name # name
         IN [some |-> TRUE, kind |-> tags[i].kind, val |-> tags[i].val]
    ELSE [some |-> FALSE, kind |-> "none", val |-> <<>>]

\* record.tags_mut().push_string(name, value): the tag is appended to the
\* record's tags
push_string(tags, name, value) ==
    Append(tags, [name |-> name, kind |-> "String", val |-> value])

\* variant: the filter_matching branch keeps the records without a match
should_keepFlipped(a, kmers_found) ==
    IF a.filter_matching THEN Len(kmers_found) = 0
    ELSE IF a.invert_match THEN Len(kmers_found) = 0
    ELSE TRUE

\* the gate of process_record
should_keep(a, kmers_found) ==
    IF a.filter_matching THEN Len(kmers_found) > 0
    ELSE IF a.invert_match THEN Len(kmers_found) = 0
    ELSE TRUE

\* the search part of process_record on record number rec with sequence t:
\* kmers_found, the events handed to the loggers and the counter changes
ScanTag(a, ms, pl, rec, t, c) ==
    LET log == logging_active(a)
    IN IF ms.kind = "AhoCorasick"
       THEN LET hits == find_overlapping_iter(pl, ms.case_insensitive, t)
            IN [panic |-> FALSE,
                kmers_found |-> [i \in 1 .. Len(hits) |-> pl[hits[i].pattern]],
                events |-> IF log THEN MatchEvents(1, rec, hits) ELSE <<>>,
                counters |->
                  IF log
                  THEN [c EXCEPT
                          !.pattern_hit_counts =
                              Incremented(@, [i \in 1 .. Len(hits) |->
                                                 hits[i].pattern]),
                          !.nb_hits_tot[1] = @ + Len(hits)]
                  ELSE c]
       ELSE IF log
       THEN LET offs == CollectionOffsets(ms.coll, t)
                hitIdx == SelectSeq([k \in 1 .. Len(offs) |-> k],
                                    LAMBDA k : Len(offs[k].val) > 0)
            IN [panic |-> CollectionPanics(ms.coll, t),
                kmers_found |-> [i \in 1 .. Len(hitIdx) |-> pl[hitIdx[i]]],
                events |-> Concat([k \in 1 .. Len(offs) |->
                                     OffsetEvents(1, rec, k, offs[k].val)]),
                counters |->
                  [c EXCEPT
                     !.pattern_hit_counts = Incremented(@, hitIdx),
                     !.nb_hits_tot[1] =
                         @ + Len(Concat([k \in 1 .. Len(offs) |->
                                            offs[k].val]))]]
       ELSE LET res == [k \in 1 .. Len(ms.coll) |-> find_match(ms.coll[k], t)]
                hitIdx == SelectSeq([k \in 1 .. Len(res) |-> k],
                                    LAMBDA k : res[k] = "true")
            IN [panic |-> \E k \in 1 .. Len(res) : res[k] = "panic",
                kmers_found |-> [i \in 1 .. Len(hitIdx) |-> pl[hitIdx[i]]],
                events |-> <<>>, counters |-> c]

\* the record counters process_record updates after the search
CountRecord(a, c, t, kmers_found) ==
    IF logging_active(a)
    THEN [c EXCEPT !.nb_records_tot = @ + 1, !.nb_bases = @ + Len(t),
                   !.nb_records_hit[1] = @ + B2N(Len(kmers_found) > 0)]
    ELSE c

\* the tag part of process_record on a kept record: the entries of an
\* existing non-empty string tag are added to kmers_found, the list is
\* sorted and deduplicated, joined and pushed; a tag of another type is an
\* error, and so is a non-empty string tag whose value is not UTF-8
TagMerge(tags, kmers_found) ==
    LET old == TagsGet(tags, TagName)
    IN IF old.some /\ old.kind # "String"
       THEN [tag |-> "Err", err |-> "InvalidTagFormat", tags |-> tags]
       ELSE IF old.some /\ Len(old.val) > 0 /\ ~IsUtf8(old.val)
       THEN [tag |-> "Err", err |-> "TagNotUtf8", tags |-> tags]
       ELSE LET ext == IF old.some /\ Len(old.val) > 0
                       THEN kmers_found \o SplitComma(old.val, <<>>)
                       ELSE kmers_found
                final == dedup(sort_unstable(ext))
            IN [tag |-> "Ok", err |-> "none",
                tags |-> push_string(tags, TagName, JoinComma(final))]

\* the sequences the tag runs read: "ACA" and "ac"
TagSeqPool == { <<65, 67, 65>>, <<97, 99>> }

\* the tags a record arrives with: none; the configured tag with an empty
\* value; with the value "C,A"; with the value "C," followed by the bytes
\* 0xFF 0xFE, which is not UTF-8; with an integer value
TagsPool ==
    { <<>>,
      <<[name |-> TagName, kind |-> "String", val |-> <<>>]>>,
      <<[name |-> TagName, kind |-> "String", val |-> <<67, 44, 65>>]>>,
      <<[name |-> TagName, kind |-> "String", val |-> <<67, 44, 255, 254>>]>>,
      <<[name |-> TagName, kind |-> "Int", val |-> <<>>]>> }

\* the records the reader can yield as record number rec
TagRecords(rec) == [name : RecordIds(rec), seq : TagSeqPool, tags : TagsPool]

NoRecord == [id |-> 0, seq |-> <<>>, tags |-> <<>>]

\* the options of tag; -q and -a exclude each other, as do -m and -v, and
\* -S requires a log
TagArgs ==
    { x \in { [DefaultArgs EXCEPT !.cmd = "tag",
                                  !.case_insensitive = o[1], !.q_size = o[2],
                                  !.aho_corasick = o[3],
                                  !.invert_match = o[4],
                                  !.suppress_output = o[5], !.out_log = o[6],
                                  !.json_log = o[7],
                                  !.filter_matching = o[8]] :
                o \in BOOLEAN \X {NoQ, SomeQ(2)} \X BOOLEAN \X BOOLEAN \X
                      BOOLEAN \X BOOLEAN \X BOOLEAN \X BOOLEAN } :
        /\ ~(x.q_size.some /\ x.aho_corasick)
        /\ ~(x.filter_matching /\ x.invert_match)
        /\ x.suppress_output => (x.out_log \/ x.json_log) }

InitTag ==
    /\ LoggerIdle
    /\ FlagsIdle
    /\ MatcherIdle
    /\ \E l \in RunPatternLists : kmer_input = [source |-> "seq", list |-> l]
    /\ cli \in TagArgs
    /\ args = cli
    /\ pattern_list = NoList
    /\ matchers = NoMatchers
    /\ RunIdle
    /\ pc = "start"

\* one iteration of the record loop: read_into(&mut record) followed by
\* process_record
TagRecord ==
    /\ pc = "ready"
    /\ args.cmd = "tag"
    /\ Len(input) < MaxRecords
    /\ \E rin \in TagRecords(Len(input) + 1) :
       \E r \in {ScanTag(args, matchers, pattern_list.val, Len(input) + 1,
                         rin.seq, counters)} :
       \E mg \in {TagMerge(rin.tags, r.kmers_found)} :
         LET rec == Len(input) + 1
             keep == should_keep(args, r.kmers_found)
             logged == LoggedPrefix(r.events, rin.name, rin.name)
         IN /\ input' = Append(input, rin)
            /\ IF r.panic
               THEN /\ pc' = "panic"
                    /\ record' = [id |-> rec, seq |-> rin.seq,
                                  tags |-> rin.tags]
                    /\ UNCHANGED <<events, jevents, counters, written>>
               ELSE IF Len(logged) < Len(r.events)
               THEN /\ pc' = "panic"
                    /\ events' = events \o logged
                    /\ jevents' = IF args.json_log THEN jevents \o logged
                                  ELSE jevents
                    /\ record' = [id |-> rec, seq |-> rin.seq,
                                  tags |-> rin.tags]
                    /\ UNCHANGED <<counters, written>>
               ELSE /\ events' = events \o r.events
                    /\ jevents' = IF args.json_log THEN jevents \o r.events
                                  ELSE jevents
                    /\ counters' = CountRecord(args, r.counters, rin.seq,
                                               r.kmers_found)
                    /\ pc' = IF keep /\ mg.tag = "Err" THEN "failed" ELSE pc
                    /\ record' = [id |-> rec, seq |-> rin.seq,
                                  tags |-> IF keep THEN mg.tags ELSE rin.tags]
                    /\ written' =
                         IF keep /\ mg.tag = "Ok" /\ ~args.suppress_output
                         THEN Append(written, record')
                         ELSE written
    /\ UNCHANGED <<loggerVars, flagVars, matcherVars,
                   cli, args, kmer_input, pattern_list, matchers,
                   input2, written2, twin>>

\* the reader is exhausted: the loop ends and the summaries are written
TagEnd ==
    /\ pc = "ready"
    /\ args.cmd = "tag"
    /\ pc' = "done"
    /\ summary' = WriteSummaries(args, summary)
    /\ UNCHANGED <<logger, log_sink, json_logger, json_sink, lcall,
                   flagVars, matcherVars, cliVars>>

NextTag ==
    \/ ParsePatternList
    \/ SelectAlgorithm
    \/ BuildMatchers
    \/ TagRecord
    \/ TagEnd

SpecTag == InitTag /\ [][NextTag]_vars

----------------------------------------------------------------------------
(* The two drivers together: a run of extract or a run of tag *)

InitDrivers == InitExtract \/ InitTag

NextDrivers == NextExtract \/ NextTag

SpecDrivers == InitDrivers /\ [][NextDrivers]_vars

----------------------------------------------------------------------------
(* The loggers: logger.rs, BufferedLogger and JsonLogger *)

\* most method calls made on a logger after its construction
MaxLogCalls == 4

\* BufferedLogger::new(writer, buffer_size); writer is TRUE for Some(sink)
BufferedLoggerNew(writer, buffer_size) ==
    [state |-> "live", buffer |-> <<>>, writer |-> writer,
     buffer_size |-> buffer_size, records |-> <<>>]

\* BufferedLogger::flush: with a writer and a non-empty buffer the buffer is
\* written and cleared; otherwise nothing happens
flush(l, sink) ==
    IF l.writer /\ Len(l.buffer) > 0
    THEN [logger |-> [l EXCEPT !.buffer = <<>>], sink |-> sink \o l.buffer]
    ELSE [logger |-> l, sink |-> sink]

\* the line "{prefix}\t{id_str}\t{pattern}\t{index}\n"
FormatFields(prefix, id_str, pat, index) ==
    prefix \o <<9>> \o id_str \o <<9>> \o pat \o <<9>> \o Digits(index)
           \o <<10>>

\* BufferedLogger::log_record: the line is kept in records and appended to
\* the buffer; a buffer at or over the threshold is flushed
log_record(l, sink, line) ==
    LET l1 == [l EXCEPT !.records = Append(@, line), !.buffer = @ \o line]
    IN IF Len(l1.buffer) >= l1.buffer_size THEN flush(l1, sink)
       ELSE [logger |-> l1, sink |-> sink]

\* BufferedLogger::log_fields: the id is read as UTF-8 first, and an id that
\* is not UTF-8 makes the expect panic before anything is stored; otherwise
\* as log_record with the formatted line
log_fields(l, sink, prefix, id_str, pat, index) ==
    IF ~IsUtf8(id_str) THEN [panic |-> TRUE, logger |-> l, sink |-> sink]
    ELSE LET line == FormatFields(prefix, id_str, pat, index)
             l1 == [l EXCEPT !.records = Append(@, line),
                             !.buffer = @ \o line]
             r == IF Len(l1.buffer) >= l1.buffer_size THEN flush(l1, sink)
                  ELSE [logger |-> l1, sink |-> sink]
         IN [panic |-> FALSE, logger |-> r.logger, sink |-> r.sink]

\* BufferedLogger::write_header: written to the writer at once, unbuffered
write_header(l, sink, header) ==
    [logger |-> l, sink |-> IF l.writer THEN sink \o header ELSE sink]

\* the thresholds of the BufferedLogger runs
BufferSizes == {0, 8, 20}

\* the lines handed to log_record: "", "R\n" and "Record\n"
RecordLines ==
    { <<>>, <<82, 10>>, <<82, 101, 99, 111, 114, 100, 10>> }

\* the fields handed to log_fields: prefix "f"; the ids "r", the quote
\* (which JSON escapes) and the byte 0xFF (which is not UTF-8); patterns
\* "A" and "AC", offsets 0 and 10
FieldPrefixes == { <<102>> }

FieldIds == { <<114>>, <<34>>, <<255>> }

FieldPatterns == { <<65>>, <<65, 67>> }

FieldOffsets == {0, 10}

\* the header handed to write_header: "#H\n"
HeaderLine == <<35, 72, 10>>

\* the logger run and the JSON run leave the drivers' variables alone
InitBufferedLogger ==
    /\ MatcherIdle
    /\ CliIdle
    /\ LoggerIdle
    /\ FlagsIdle
    /\ pc = "start"

NewBufferedLogger ==
    /\ pc = "start"
    /\ cli.cmd = "none"
    /\ \E w \in BOOLEAN, bs \in BufferSizes :
          logger' = BufferedLoggerNew(w, bs)
    /\ lcall' = [name |-> "new", n |-> 0]
    /\ pc' = "logging"
    /\ UNCHANGED <<flagVars, matcherVars, cliVars,
                   log_sink, json_logger, json_sink,
                   summary>>

CallLogRecord ==
    /\ pc = "logging"
    /\ lcall.n < MaxLogCalls
    /\ \E line \in RecordLines :
       \E r \in {log_record(logger, log_sink, line)} :
          /\ logger' = r.logger
          /\ log_sink' = r.sink
    /\ lcall' = [name |-> "log_record", n |-> lcall.n + 1]
    /\ UNCHANGED <<flagVars, matcherVars, cliVars,
                   json_logger, json_sink, summary, pc>>

CallLogFields ==
    /\ pc = "logging"
    /\ lcall.n < MaxLogCalls
    /\ \E f \in FieldPrefixes, id \in FieldIds, p \in FieldPatterns,
          o \in FieldOffsets :
       \E r \in {log_fields(logger, log_sink, f, id, p, o)} :
          /\ logger' = r.logger
          /\ log_sink' = r.sink
          /\ pc' = IF r.panic THEN "panic" ELSE pc
          /\ lcall' = IF r.panic THEN lcall
                      ELSE [name |-> "log_fields", n |-> lcall.n + 1]
    /\ UNCHANGED <<flagVars, matcherVars, cliVars,
                   json_logger, json_sink, summary>>

CallWriteHeader ==
    /\ pc = "logging"
    /\ lcall.n < MaxLogCalls
    /\ \E r \in {write_header(logger, log_sink, HeaderLine)} :
          /\ logger' = r.logger
          /\ log_sink' = r.sink
    /\ lcall' = [name |-> "write_header", n |-> lcall.n + 1]
    /\ UNCHANGED <<flagVars, matcherVars, cliVars,
                   json_logger, json_sink, summary, pc>>

CallFlush ==
    /\ pc = "logging"
    /\ lcall.n < MaxLogCalls
    /\ \E r \in {flush(logger, log_sink)} :
          /\ logger' = r.logger
          /\ log_sink' = r.sink
    /\ lcall' = [name |-> "flush", n |-> lcall.n + 1]
    /\ UNCHANGED <<flagVars, matcherVars, cliVars,
                   json_logger, json_sink, summary, pc>>

NextBufferedLogger ==
    \/ NewBufferedLogger
    \/ CallLogRecord
    \/ CallLogFields
    \/ CallWriteHeader
    \/ CallFlush

SpecBufferedLogger == InitBufferedLogger /\ [][NextBufferedLogger]_vars

----------------------------------------------------------------------------
(* logger.rs: the JsonLogger.  The text it writes is a sequence of pieces; *)
(* a piece is a literal of the code, a pretty-printed match object or a    *)
(* pretty-printed value, with its length in bytes.                         *)

\* a literal of the code with its byte length
Lit(txt, len) == [text |-> txt, len |-> len]

\* b"{\n  \"matching_records\": [\n"
OpenArray == Lit("{\n  \"matching_records\": [\n", 26)

\* ",\n" between two match objects
Separator == Lit(",\n", 2)

\* the bytes serde_json writes for one byte of a string: two for the quote,
\* the backslash and the control characters with a short escape (\b \t \n
\* \f \r), six (\u00XX) for the other control characters, else the byte
EscapedLen(b) ==
    IF b \in {34, 92, 8, 9, 10, 12, 13} THEN 2
    ELSE IF b < 32 THEN 6
    ELSE 1

RECURSIVE JsonStringLen(_)
\* the length of a string between its quotes in the JSON text
JsonStringLen(str) ==
    IF Len(str) = 0 THEN 0
    ELSE EscapedLen(str[1]) + JsonStringLen(Tail(str))

\* the match object of log_fields: serde_json's pretty form of the four
\* fields, every line indented by four blanks and ended by a newline; the
\* text has 95 bytes besides the escaped field values
MatchObject(file, id_str, pat, index) ==
    [text |-> "match", file |-> file, record_id |-> id_str, pattern |-> pat,
     position |-> Digits(index),
     len |-> 95 + JsonStringLen(file) + JsonStringLen(id_str)
                + JsonStringLen(pat) + Len(Digits(index))]

\* the bytes a buffer of pieces holds
RECURSIVE BufLen(_)
BufLen(buf) == IF Len(buf) = 0 THEN 0 ELSE buf[1].len + BufLen(Tail(buf))

\* JsonLogger::new: the opening of the document goes to the writer at once
JsonLoggerNew(writer, buffer_size) ==
    [logger |-> [state |-> "live", buffer |-> <<>>, writer |-> writer,
                 buffer_size |-> buffer_size, first |-> TRUE],
     sink |-> IF writer THEN <<OpenArray>> ELSE <<>>]

\* JsonLogger::flush
json_flush(j, sink) ==
    IF j.writer /\ BufLen(j.buffer) > 0
    THEN [logger |-> [j EXCEPT !.buffer = <<>>], sink |-> sink \o j.buffer]
    ELSE [logger |-> j, sink |-> sink]

\* JsonLogger::log_fields: an id that is not UTF-8 makes the expect panic
\* before `first` and the buffer are touched
json_log_fields(j, sink, file, id_str, pat, index) ==
    IF ~IsUtf8(id_str) THEN [panic |-> TRUE, logger |-> j, sink |-> sink]
    ELSE LET sep == IF j.first THEN <<>> ELSE <<Separator>>
             j1 == [j EXCEPT !.first = FALSE,
                             !.buffer = @ \o sep \o
                                   <<MatchObject(file, id_str, pat, index)>>]
             r == IF BufLen(j1.buffer) >= j1.buffer_size
                  THEN json_flush(j1, sink)
                  ELSE [logger |-> j1, sink |-> sink]
         IN [panic |-> FALSE, logger |-> r.logger, sink |-> r.sink]

\* the blanks write_indented_value puts before every line but the first
Indent == 2

\* write_indented_value(value, 2) followed by the removal of the final
\* newline: the lines of the pretty form, each but the first behind two
\* blanks, without a newline at the end
IndentedValue(value) ==
    [text |-> "value", value |-> value.name,
     len |-> value.len + Indent * (value.lines - 1)]

\* a value handed to finalize: its section, the length of its pretty form
\* and the number of lines of the pretty form
Value(name, len, lines) == [name |-> name, len |-> len, lines |-> lines]

\* no paired_end_stats
None == [some |-> FALSE]

Some(v) == [some |-> TRUE, val |-> v]

\* JsonLogger::finalize: the sections are appended to the buffer and the
\* buffer is flushed; the logger is consumed (what remains records whether it
\* had a writer)
finalize(j, sink, meta_information, pattern_hit_counts, summary_statistics, paired_end_stats) ==
    LET b1 == j.buffer \o
              << Lit("  ],\n  \"meta_information\": ", 27),
                 IndentedValue(meta_information) >>
        b2 == IF paired_end_stats.some
              THEN b1 \o
                   << Lit(",\n  \"paired_end_reads_statistics\": ", 35),
                      IndentedValue(paired_end_stats.val) >>
              ELSE b1
        b3 == b2 \o
              << Lit(",\n  \"pattern_hit_counts\": ", 26),
                 IndentedValue(pattern_hit_counts),
                 Lit(",\n  \"summary_statistics\": ", 26),
                 IndentedValue(summary_statistics),
                 Lit("\n}\n", 3) >>
        r == json_flush([j EXCEPT !.buffer = b3], sink)
    IN [logger |-> [state |-> "finalized", writer |-> j.writer],
        sink |-> r.sink]

\* variant: the drivers hand paired_end_stats over only in a paired run
PairedEndStatsIfPaired(a, shape) ==
    IF a.cmd = "extract" /\ a.paired
    THEN Some(Value("paired_end_reads_statistics", shape.len, shape.lines))
    ELSE None

\* the paired_end_stats argument of the drivers' finalize call: extract hands
\* Some(&paired_end_stats) over in every run, tag hands None over
PairedEndStats(a, shape) ==
    IF a.cmd = "extract"
    THEN Some(Value("paired_end_reads_statistics", shape.len, shape.lines))
    ELSE None

\* the pretty forms of the values handed to finalize, as length and number
\* of lines: "{}" and the three lines of {"a": 1}
ValueShapes == { [len |-> 2, lines |-> 1], [len |-> 12, lines |-> 3] }

\* the thresholds of the JsonLogger runs
JsonBufferSizes == {100, 250}

\* the runs whose JSON log is written: extract on one file, extract on two
\* files, tag
JsonRuns ==
    { [DefaultArgs EXCEPT !.cmd = "extract", !.json_log = TRUE,
                          !.paired = p] : p \in BOOLEAN }
    \cup { [DefaultArgs EXCEPT !.cmd = "tag", !.json_log = TRUE] }

InitJsonLogger ==
    /\ MatcherIdle
    /\ RunIdle
    /\ LoggerIdle
    /\ FlagsIdle
    /\ cli \in JsonRuns
    /\ args = cli
    /\ kmer_input = [source |-> "none", list |-> <<>>]
    /\ pattern_list = NoList
    /\ matchers = NoMatchers
    /\ pc = "start"

NewJsonLogger ==
    /\ pc = "start"
    /\ cli.json_log
    /\ json_logger = NoLogger
    /\ \E w \in BOOLEAN, bs \in JsonBufferSizes :
       \E r \in {JsonLoggerNew(w, bs)} :
          /\ json_logger' = r.logger
          /\ json_sink' = r.sink
    /\ lcall' = [name |-> "new", n |-> 0]
    /\ pc' = "logging"
    /\ UNCHANGED <<flagVars, matcherVars, cliVars, logger, log_sink, summary>>

CallJsonLogFields ==
    /\ pc = "logging"
    /\ json_logger.state = "live"
    /\ lcall.n < MaxLogCalls
    /\ \E f \in FieldPrefixes, id \in FieldIds, p \in FieldPatterns,
          o \in FieldOffsets :
       \E r \in {json_log_fields(json_logger, json_sink, f, id, p, o)} :
          /\ json_logger' = r.logger
          /\ json_sink' = r.sink
          /\ jevents' = IF r.panic THEN jevents
                        ELSE Append(jevents, MatchObject(f, id, p, o))
          /\ pc' = IF r.panic THEN "panic" ELSE pc
          /\ lcall' = IF r.panic THEN lcall
                      ELSE [name |-> "log_fields", n |-> lcall.n + 1]
    /\ UNCHANGED <<flagVars, matcherVars,
                   cli, args, kmer_input, pattern_list, matchers,
                   input, input2, written, written2, twin, counters, events,
                   record, logger, log_sink, summary>>

CallJsonFlush ==
    /\ pc = "logging"
    /\ json_logger.state = "live"
    /\ lcall.n < MaxLogCalls
    /\ \E r \in {json_flush(json_logger, json_sink)} :
          /\ json_logger' = r.logger
          /\ json_sink' = r.sink
    /\ lcall' = [name |-> "flush", n |-> lcall.n + 1]
    /\ UNCHANGED <<flagVars, matcherVars, cliVars,
                   logger, log_sink, summary, pc>>

\* the drivers' finalize call after the record loop
CallFinalize ==
    /\ pc = "logging"
    /\ json_logger.state = "live"
    /\ \E shape \in ValueShapes :
       \E r \in {finalize(json_logger, json_sink,
                          Value("meta_information", shape.len, shape.lines),
                          Value("pattern_hit_counts", shape.len, shape.lines),
                          Value("summary_statistics", shape.len, shape.lines),
                          PairedEndStats(args, shape))} :
          /\ json_logger' = r.logger
          /\ json_sink' = r.sink
    /\ lcall' = [name |-> "finalize", n |-> lcall.n]
    /\ summary' = [summary EXCEPT !.json = @ + 1]
    /\ pc' = "done"
    /\ UNCHANGED <<flagVars, matcherVars, cliVars, logger, log_sink>>

NextJsonLogger ==
    \/ NewJsonLogger
    \/ CallJsonLogFields
    \/ CallJsonFlush
    \/ CallFinalize

SpecJsonLogger == InitJsonLogger /\ [][NextJsonLogger]_vars

----------------------------------------------------------------------------
(* The text log of an extract run: cmd_extract.rs, the calls made on the   *)
(* BufferedLogger before, in and after the record loop                     *)

\* the threshold of the drivers' loggers
LogBufferSize == 8192

\* the file names of the two inputs in the log: "f" and "g"
FileName(file) == IF file = 1 THEN <<102>> ELSE <<103>>

RECURSIVE WriteHeaders(_, _, _)
\* write_header called on each line in turn
WriteHeaders(l, sink, lines) ==
    IF Len(lines) = 0 THEN [logger |-> l, sink |-> sink]
    ELSE LET r == write_header(l, sink, lines[1])
         IN WriteHeaders(r.logger, r.sink, Tail(lines))

RECURSIVE LogEvents(_, _, _, _, _, _)
\* logger.log_fields(file name, record id, pattern, offset) on each event of
\* an iteration in turn, up to the call that panics
LogEvents(l, sink, evs, id1, id2, pl) ==
    IF Len(evs) = 0 THEN [panic |-> FALSE, logger |-> l, sink |-> sink]
    ELSE LET r == log_fields(l, sink, FileName(evs[1].file),
                             EventId(evs[1], id1, id2),
                             pl[evs[1].pattern], evs[1].pos)
         IN IF r.panic THEN r
            ELSE LogEvents(r.logger, r.sink, Tail(evs), id1, id2, pl)

\* the lines of the header block
HeaderLines(a, pl) ==
    LET
        \* "#SeqKatcher extract log"
        TitleLine ==
            <<35, 83, 101, 113, 75, 97, 116, 99, 104, 101, 114, 32, 101,
            120, 116, 114, 97, 99, 116, 32, 108, 111, 103, 10>>
        \* Zoned::now() rounded to the second, for one instant
        NowLine ==
            <<35, 50, 48, 50, 54, 45, 48, 49, 45, 48, 49, 84, 48, 48, 58,
            48, 48, 58, 48, 48, 43, 48, 48, 58, 48, 48, 91, 85, 84, 67, 93,
            10>>
        \* crate_name!() and crate_version!(), for one version
        RunningLine ==
            <<35, 82, 117, 110, 110, 105, 110, 103, 32, 109, 101, 114, 107,
            117, 114, 105, 111, 32, 118, 101, 114, 115, 105, 111, 110, 32,
            49, 46, 48, 46, 48, 10>>
        \* env::args(), for one command line
        CommandLine ==
            <<35, 67, 111, 109, 109, 97, 110, 100, 32, 108, 105, 110, 101,
            58, 32, 109, 101, 114, 107, 117, 114, 105, 111, 32, 101, 120,
            116, 114, 97, 99, 116, 10>>
        \* "#Searching for "
        SearchingFor ==
            <<35, 83, 101, 97, 114, 99, 104, 105, 110, 103, 32, 102, 111,
            114, 32>>
        \* " pattern" and the blank before the last field
        OnePattern ==
            <<32, 112, 97, 116, 116, 101, 114, 110, 32>>
        \* " patterns" and the blank before the last field
        ManyPatterns ==
            <<32, 112, 97, 116, 116, 101, 114, 110, 115, 32>>
        \* "(inverted matching)"
        InvertedMatching ==
            <<40, 105, 110, 118, 101, 114, 116, 101, 100, 32, 109, 97, 116,
            99, 104, 105, 110, 103, 41>>
        \* the empty comment line and the column titles
        ColumnLines ==
            <<35, 10, 35, 70, 105, 108, 101, 9, 82, 101, 99, 111, 114, 100,
            9, 80, 97, 116, 116, 101, 114, 110, 9, 80, 111, 115, 105, 116,
            105, 111, 110, 32, 40, 122, 101, 114, 111, 45, 98, 97, 115, 101,
            100, 41, 10>>
    IN << TitleLine, NowLine, RunningLine, CommandLine,
          SearchingFor \o Digits(Len(pl))
              \o (IF Len(pl) > 1 THEN ManyPatterns ELSE OnePattern)
              \o (IF a.invert_match THEN InvertedMatching ELSE <<>>)
              \o <<10>>,
          ColumnLines >>

\* the header block: written only with logging active, then a flush
WriteTextHeader(l, sink, a, pl) ==
    IF logging_active(a)
    THEN LET r == WriteHeaders(l, sink, HeaderLines(a, pl))
         IN flush(r.logger, r.sink)
    ELSE [logger |-> l, sink |-> sink]

\* the quotient bits of r / d after the leading one, n of them: the
\* remainder left, and the last eight bits of the quotient so far
RECURSIVE QuotientBits(_, _, _, _)
QuotientBits(r, d, low, n) ==
    IF n = 0 THEN [rem |-> r, low |-> low]
    ELSE LET bit == IF 2 * r >= d THEN 1 ELSE 0
         IN QuotientBits(2 * r - bit * d, d, (2 * low + bit) % 256, n - 1)

\* num as f64 / den as f64 * 100.0 against the exact 100 * num / den, for
\* 0 < num and den below 2^24: a multiple of den times the difference, so
\* positive, zero or negative as the f64 value lies above, on or below.
\* The quotient is rounded to the 53 bits of an f64 (to even on a tie), and
\* so is its product with 100, which has 59 or 60 bits (60 from a mantissa
\* of 1.28 on)
F64PercentError(num, den) ==
    LET RECURSIVE ScaledNum(_)
        ScaledNum(a) == IF a < den THEN ScaledNum(2 * a) ELSE a
        a == ScaledNum(num)
        RECURSIVE ScaledDen(_)
        ScaledDen(d) == IF a >= 2 * d THEN ScaledDen(2 * d) ELSE d
        d == ScaledDen(den)
        qt == QuotientBits(a - d, d, 1, 52)
        c == IF 2 * qt.rem > d \/ (2 * qt.rem = d /\ qt.low % 2 = 1)
             THEN 1 ELSE 0
        m == (qt.low + c) % 256
        k == IF 25 * a > 32 * d \/ (25 * a = 32 * d /\ c = 1) THEN 7 ELSE 6
        low == (100 * m) % (2 ^ k)
        bitk == ((100 * m) % (2 ^ (k + 1))) \div (2 ^ k)
        adj == IF low > 2 ^ (k - 1) \/ (low = 2 ^ (k - 1) /\ bitk = 1)
               THEN 2 ^ k - low ELSE 0 - low
    IN (100 * c + adj) * d - 100 * qt.rem

\* `{:.2}` of num as f64 / den as f64 * 100.0: the f64 percentage rounded to
\* the nearest hundredth. The f64 value is within 2^-45 of the exact
\* percentage, so only an exact percentage half way between two hundredths
\* rounds by the f64 value: up when the f64 value lies above, down when it
\* lies below, to the even hundredth when it is exact. No percentage lies
\* half way for fewer than 32 patterns
Fixed2(num, den) ==
    LET q == (num * 10000) \div den
        r == (num * 10000) % den
        h == IF 2 * r > den THEN q + 1
             ELSE IF 2 * r < den THEN q
             ELSE LET e == F64PercentError(num, den)
                  IN IF e > 0 \/ (e = 0 /\ q % 2 = 1) THEN q + 1 ELSE q
    IN Digits(h \div 100) \o <<46, 48 + ((h % 100) \div 10), 48 + (h % 10)>>

\* the lines of the summary block
SummaryLines(a, pl, c) ==
    LET
        \* "#", then "#Number of patterns found: "
        PatternsFound ==
            <<35, 10, 35, 78, 117, 109, 98, 101, 114, 32, 111, 102, 32, 112,
            97, 116, 116, 101, 114, 110, 115, 32, 102, 111, 117, 110, 100,
            58, 32>>
        \* the title of the pattern counts
        PatternCountTitle ==
            <<35, 80, 97, 116, 116, 101, 114, 110, 9, 67, 111, 117, 110,
            116, 10>>
        \* "#", then "#Total number of records searched: "
        RecordsSearched ==
            <<35, 10, 35, 84, 111, 116, 97, 108, 32, 110, 117, 109, 98, 101,
            114, 32, 111, 102, 32, 114, 101, 99, 111, 114, 100, 115, 32,
            115, 101, 97, 114, 99, 104, 101, 100, 58, 32>>
        \* "#Total number of characters searched: "
        CharactersSearched ==
            <<35, 84, 111, 116, 97, 108, 32, 110, 117, 109, 98, 101, 114,
            32, 111, 102, 32, 99, 104, 97, 114, 97, 99, 116, 101, 114, 115,
            32, 115, 101, 97, 114, 99, 104, 101, 100, 58, 32>>
        \* "#Total number of hits: "
        TotalHits ==
            <<35, 84, 111, 116, 97, 108, 32, 110, 117, 109, 98, 101, 114,
            32, 111, 102, 32, 104, 105, 116, 115, 58, 32>>
        \* "#Number of distinct records with a hit: "
        RecordsWithHit ==
            <<35, 78, 117, 109, 98, 101, 114, 32, 111, 102, 32, 100, 105,
            115, 116, 105, 110, 99, 116, 32, 114, 101, 99, 111, 114, 100,
            115, 32, 119, 105, 116, 104, 32, 97, 32, 104, 105, 116, 58, 32>>
        \* "#", then "#Total number of hits in file 1: "
        HitsFile1 ==
            <<35, 10, 35, 84, 111, 116, 97, 108, 32, 110, 117, 109, 98, 101,
            114, 32, 111, 102, 32, 104, 105, 116, 115, 32, 105, 110, 32,
            102, 105, 108, 101, 32, 49, 58, 32>>
        \* "#Total number of hits in file 2: "
        HitsFile2 ==
            <<35, 84, 111, 116, 97, 108, 32, 110, 117, 109, 98, 101, 114,
            32, 111, 102, 32, 104, 105, 116, 115, 32, 105, 110, 32, 102,
            105, 108, 101, 32, 50, 58, 32>>
        \* "#Number of distinct records with a hit in file 1: "
        RecordsWithHitFile1 ==
            <<35, 78, 117, 109, 98, 101, 114, 32, 111, 102, 32, 100, 105,
            115, 116, 105, 110, 99, 116, 32, 114, 101, 99, 111, 114, 100,
            115, 32, 119, 105, 116, 104, 32, 97, 32, 104, 105, 116, 32, 105,
            110, 32, 102, 105, 108, 101, 32, 49, 58, 32>>
        \* "#Number of distinct records with a hit in file 2: "
        RecordsWithHitFile2 ==
            <<35, 78, 117, 109, 98, 101, 114, 32, 111, 102, 32, 100, 105,
            115, 116, 105, 110, 99, 116, 32, 114, 101, 99, 111, 114, 100,
            115, 32, 119, 105, 116, 104, 32, 97, 32, 104, 105, 116, 32, 105,
            110, 32, 102, 105, 108, 101, 32, 50, 58, 32>>
        \* "#Total number of extracted records: "
        ExtractedRecords ==
            <<35, 84, 111, 116, 97, 108, 32, 110, 117, 109, 98, 101, 114,
            32, 111, 102, 32, 101, 120, 116, 114, 97, 99, 116, 101, 100, 32,
            114, 101, 99, 111, 114, 100, 115, 58, 32>>
        nb_patterns_found ==
            Cardinality({k \in 1 .. Len(pl) : c.pattern_hit_counts[k] > 0})
        Line(lit, n) == lit \o Digits(n) \o <<10>>
    IN << PatternsFound \o Digits(nb_patterns_found) \o <<47>>
              \o Digits(Len(pl)) \o <<32, 40>>
              \o Fixed2(nb_patterns_found, Len(pl)) \o <<32, 37, 41, 10>>,
          PatternCountTitle >>
       \o [k \in 1 .. Len(pl) |->
              <<35>> \o pl[k] \o <<9>> \o Digits(c.pattern_hit_counts[k])
                     \o <<10>>]
       \o << Line(RecordsSearched, c.nb_records_tot),
             Line(CharactersSearched, c.nb_bases),
             Line(TotalHits, c.nb_hits_tot[1] + c.nb_hits_tot[2]),
             Line(RecordsWithHit,
                  c.nb_records_hit[1] + c.nb_records_hit[2]) >>
       \o (IF a.paired
           THEN << Line(HitsFile1, c.nb_hits_tot[1]),
                   Line(HitsFile2, c.nb_hits_tot[2]),
                   Line(RecordsWithHitFile1, c.nb_records_hit[1]),
                   Line(RecordsWithHitFile2, c.nb_records_hit[2]),
                   Line(ExtractedRecords, c.nb_records_extracted) >>
           ELSE <<>>)

\* variant: the buffer is not flushed before the summary lines
WriteTextSummaryUnflushed(l, sink, a, pl, c) ==
    IF logging_active(a)
    THEN LET r == WriteHeaders(l, sink, SummaryLines(a, pl, c))
         IN flush(r.logger, r.sink)
    ELSE [logger |-> l, sink |-> sink]

\* the summary block: with logging active a flush, the summary lines by
\* write_header, and a flush
WriteTextSummary(l, sink, a, pl, c) ==
    IF logging_active(a)
    THEN LET f == flush(l, sink)
             r == WriteHeaders(f.logger, f.sink, SummaryLines(a, pl, c))
         IN flush(r.logger, r.sink)
    ELSE [logger |-> l, sink |-> sink]

\* the options of the logged runs: a text log, a JSON log alone or no log,
\* both algorithms, one or two input files
TextLogArgs ==
    { [DefaultArgs EXCEPT !.cmd = "extract", !.aho_corasick = o[1],
                          !.out_log = o[2][1], !.json_log = o[2][2],
                          !.paired = o[3]] :
        o \in BOOLEAN \X {<<TRUE, FALSE>>, <<FALSE, TRUE>>, <<FALSE, FALSE>>}
               \X BOOLEAN }

\* the pattern lists of the logged runs: "A"; "AC", "A"; and "A", "C",
\* "G", of which a run finds none, one or two
TextLogPatternLists ==
    { <<<<65>>>>, << <<65, 67>>, <<65>> >>, << <<65>>, <<67>>, <<71>> >> }

InitTextLog ==
    /\ LoggerIdle
    /\ FlagsIdle
    /\ MatcherIdle
    /\ \E l \in TextLogPatternLists :
          kmer_input = [source |-> "seq", list |-> l]
    /\ cli \in TextLogArgs
    /\ args = cli
    /\ pattern_list = NoList
    /\ matchers = NoMatchers
    /\ RunIdle
    /\ pc = "start"

\* BufferedLogger::new(log_file, 8192) and the header block
OpenTextLog ==
    /\ pc = "selected"
    /\ args.cmd = "extract"
    /\ logger = NoLogger
    /\ \E r \in {WriteTextHeader(BufferedLoggerNew(args.out_log,
                                                   LogBufferSize),
                                 log_sink, args, pattern_list.val)} :
          /\ logger' = r.logger
          /\ log_sink' = r.sink
    /\ UNCHANGED <<json_logger, json_sink, lcall, summary, flagVars,
                   matcherVars, cliVars, pc>>

\* the matcher construction, which follows the header block
LoggedBuildMatchers == logger # NoLogger /\ BuildMatchers

\* an iteration of the single-file loop with its calls of log_fields: the
\* events the iteration has handed over are the lines the logger holds
LoggedExtractRecord ==
    /\ logger # NoLogger
    /\ ExtractRecordStep
    /\ \E r \in {LogEvents(logger, log_sink,
                           SubSeq(events', Len(events) + 1, Len(events')),
                           input'[Len(input')].id, input'[Len(input')].id,
                           pattern_list.val)} :
          /\ logger' = r.logger
          /\ log_sink' = r.sink
    /\ UNCHANGED <<json_logger, json_sink, lcall, summary>>

\* an iteration of the paired loop with its calls of log_fields
LoggedExtractPair ==
    /\ logger # NoLogger
    /\ ExtractPairStep
    /\ \E r \in {LogEvents(logger, log_sink,
                           SubSeq(events', Len(events) + 1, Len(events')),
                           input'[Len(input')].id, input2'[Len(input2')].id,
                           pattern_list.val)} :
          /\ logger' = r.logger
          /\ log_sink' = r.sink
    /\ UNCHANGED <<json_logger, json_sink, lcall, summary>>

\* the run fails at a pair without a mate: nothing more is logged
LoggedMissingMate == logger # NoLogger /\ ExtractMissingMate

\* the end of the loop, the length check and the summary block
LoggedExtractEnd ==
    /\ logger # NoLogger
    /\ ExtractEndStep
    /\ \E r \in {IF pc' = "done"
                 THEN WriteTextSummary(logger, log_sink, args,
                                       pattern_list.val, counters)
                 ELSE [logger |-> logger, sink |-> log_sink]} :
          /\ logger' = r.logger
          /\ log_sink' = r.sink
    /\ UNCHANGED <<json_logger, json_sink, lcall>>

NextTextLog ==
    \/ ParsePatternList
    \/ SelectAlgorithm
    \/ OpenTextLog
    \/ LoggedBuildMatchers
    \/ LoggedExtractRecord
    \/ LoggedExtractPair
    \/ LoggedMissingMate
    \/ LoggedExtractEnd

SpecTextLog == InitTextLog /\ [][NextTextLog]_vars

----------------------------------------------------------------------------
(* Argument validation: the clap rules of suppress_output and              *)
(* helpers.rs, check_log_flag_conflict                                     *)

\* "STDOUT", the value the log flags take when given without a path
STDOUT == <<83, 84, 68, 79, 85, 84>>

\* Path::to_str: the text of the path, None when it is not valid UTF-8 (of
\* the paths below, the one holding the byte 255)
to_str(p) == IF IsUtf8(p) THEN Some(p) ELSE None

\* p.to_str().map(|s| s == "STDOUT").unwrap_or(false)
IsStdout(p) ==
    LET s == to_str(p) IN IF s.some THEN s.val = STDOUT ELSE FALSE

\* variant: the stdout conflict ignores suppress_output
check_log_flag_conflictNoSuppress(out_log, json_log, out_file, suppress_output) ==
    IF out_log.some /\ json_log.some
       /\ IsStdout(out_log.val) /\ IsStdout(json_log.val)
    THEN [tag |-> "Err", err |-> "both logs to stdout"]
    ELSE IF ((out_log.some /\ IsStdout(out_log.val))
             \/ (json_log.some /\ IsStdout(json_log.val)))
            /\ ~out_file.some
         THEN [tag |-> "Err", err |-> "log and output to stdout"]
         ELSE [tag |-> "Ok"]

\* check_log_flag_conflict(out_log, json_log, out_file, suppress_output)
check_log_flag_conflict(out_log, json_log, out_file, suppress_output) ==
    IF out_log.some /\ json_log.some
       /\ IsStdout(out_log.val) /\ IsStdout(json_log.val)
    THEN [tag |-> "Err", err |-> "both logs to stdout"]
    ELSE LET log_to_stdout ==
                 (out_log.some /\ IsStdout(out_log.val))
                 \/ (json_log.some /\ IsStdout(json_log.val))
         IN IF log_to_stdout /\ ~out_file.some /\ ~suppress_output
            THEN [tag |-> "Err", err |-> "log and output to stdout"]
            ELSE [tag |-> "Ok"]

\* variant: suppress_output does not require a log
ClapSuppressNoRequires(f) ==
    IF f.suppress_output /\ f.out_file.some THEN "Err" ELSE "Ok"

\* the clap rules of suppress_output: conflicts_with the output path and
\* requires the group "logging" (out_log, json_log)
ClapSuppress(f) ==
    IF f.suppress_output /\ f.out_file.some THEN "Err"
    ELSE IF f.suppress_output /\ ~(f.out_log.some \/ f.json_log.some)
    THEN "Err"
    ELSE "Ok"

\* the values of a log flag: absent, given without a path ("STDOUT"), given
\* with the paths "f", "stdout" or a path that is not valid UTF-8
LogPaths ==
    { None, Some(STDOUT), Some(<<102>>),
      Some(<<115, 116, 100, 111, 117, 116>>), Some(<<255>>) }

\* the values of the output path: absent, "o" or "STDOUT"
OutPaths == { None, Some(<<111>>), Some(STDOUT) }

\* the command lines of the validation runs
FlagSets ==
    [cmd : {"extract", "tag"}, out_log : LogPaths, json_log : LogPaths,
     out_file : OutPaths, suppress_output : BOOLEAN]

InitFlags ==
    /\ MatcherIdle
    /\ CliIdle
    /\ LoggerIdle
    /\ flags \in FlagSets
    /\ outcome = [clap |-> "unset", check |-> "unset"]
    /\ tuned = [tag |-> "unset", val |-> 0]
    /\ pc = "start"

\* check_log_flag_conflict called on its four arguments
CallCheckLogFlagConflict ==
    /\ pc = "start"
    /\ flags.cmd # "none"
    /\ outcome' = [outcome EXCEPT
                     !.check = check_log_flag_conflict(
                                   flags.out_log, flags.json_log,
                                   flags.out_file, flags.suppress_output)]
    /\ pc' = "checked"
    /\ UNCHANGED <<flags, tuned, matcherVars, cliVars, loggerVars>>

\* Cli::try_parse_from: the parser applies the rules of suppress_output
ParseArgs ==
    /\ pc = "start"
    /\ flags.cmd # "none"
    /\ outcome' = [outcome EXCEPT !.clap = ClapSuppress(flags)]
    /\ pc' = IF ClapSuppress(flags) = "Ok" THEN "parsed" ELSE "rejected"
    /\ UNCHANGED <<flags, tuned, matcherVars, cliVars, loggerVars>>

\* the first statement of extract_records / tag_records: the parsed
\* arguments go through check_log_flag_conflict
ValidateFlags ==
    /\ pc = "parsed"
    /\ \E r \in {check_log_flag_conflict(flags.out_log, flags.json_log,
                                        flags.out_file,
                                        flags.suppress_output)} :
          /\ outcome' = [outcome EXCEPT !.check = r]
          /\ pc' = IF r.tag = "Ok" THEN "accepted" ELSE "rejected"
    /\ UNCHANGED <<flags, tuned, matcherVars, cliVars, loggerVars>>

NextFlags ==
    \/ CallCheckLogFlagConflict
    \/ ParseArgs
    \/ ValidateFlags

SpecFlags == InitFlags /\ [][NextFlags]_vars

----------------------------------------------------------------------------
(* The tuner run: tune_q_value called on a pattern of every length *)

\* longest pattern handed to tune_q_value
MaxTuneLen == 130

InitTune ==
    /\ CliIdle
    /\ LoggerIdle
    /\ FlagsIdle
    /\ \E len \in 0 .. MaxTuneLen : pattern = Rep(65, len)
    /\ qgram = 0
    /\ text = <<>>
    /\ build \in {"debug", "release"}
    /\ bndmq = [tag |-> "None"]
    /\ bndm = [tag |-> "None"]
    /\ iter = NoIter
    /\ yielded = <<>>
    /\ lastItem = "unset"
    /\ calls = 0
    /\ found = "unset"
    /\ all = [tag |-> "unset", val |-> <<>>]
    /\ pc = "tune"

\* tune_q_value(pattern), once or again on the same pattern
CallTuneQValue ==
    /\ pc \in {"tune", "tuned"}
    /\ calls < 2
    /\ tuned' = tune_q_value(Len(pattern))
    /\ calls' = calls + 1
    /\ pc' = "tuned"
    /\ UNCHANGED <<pattern, qgram, text, build, bndmq, bndm, iter, yielded,
                   lastItem, found, all, flags, outcome, cliVars, loggerVars>>

NextTune == CallTuneQValue

SpecTune == InitTune /\ [][NextTune]_vars

----------------------------------------------------------------------------
(* Properties of the matchers *)

Naive == SortedSeq(NaiveOffsets(text, pattern))

StrictlyIncreasing(sq) == \A k \in 1 .. (Len(sq) - 1) : sq[k] < sq[k + 1]

IsPrefix(a, b) == Len(a) <= Len(b) /\ \A k \in 1 .. Len(a) : a[k] = b[k]

\* C1: for 1 <= q <= m <= W (the matcher was built), the offsets yielded by
\* find_iter are at every moment a strictly increasing prefix of the naive
\* scan's offsets, and once next() has returned None they are exactly the
\* naive offsets (overlapping ones included); find_all returns the same
\* list; a text shorter than the pattern yields nothing, and a text as long
\* as the pattern yields [0] iff it equals the pattern.
C1_FindIterIsNaiveScan ==
    pc = "built" /\ bndmq.tag = "Ok" =>
        /\ lastItem # "Panic"
        /\ StrictlyIncreasing(yielded)
        /\ IsPrefix(yielded, Naive)
        /\ lastItem = "None" =>
              /\ yielded = Naive
              /\ Len(text) < Len(pattern) => yielded = <<>>
              /\ Len(text) = Len(pattern) =>
                    (yielded = <<0>> <=> text = pattern)
        /\ all.tag # "unset" => all = [tag |-> "Ok", val |-> Naive]

\* C1 witness: an exhausted iterator that yielded two overlapping
\* occurrences, and find_all has run
C1_Witness ==
    /\ pc = "built"
    /\ lastItem = "None"
    /\ Len(yielded) >= 2
    /\ yielded[2] < yielded[1] + Len(pattern)
    /\ Len(pattern) >= 2
    /\ all.tag = "Ok"

\* C2: for 1 <= q <= m <= W, find_match returns true iff the pattern occurs
\* in the text at least once, which is iff find_iter on the same matcher
\* yields at least one offset.
C2_FindMatchIffOccurs ==
    pc = "built" /\ bndmq.tag = "Ok" /\ found # "unset" =>
        /\ found \in {"true", "false"}
        /\ found = "true" <=> NaiveOffsets(text, pattern) # {}
        /\ lastItem = "None" => (found = "true" <=> yielded # <<>>)
        /\ lastItem = "Some" => found = "true"

\* C2 witness: find_match answered true on a text whose first occurrence is
\* not at offset 0, and the exhausted iterator yielded offsets
C2_Witness ==
    /\ pc = "built"
    /\ found = "true"
    /\ lastItem = "None"
    /\ yielded # <<>>
    /\ yielded[1] > 0

\* the mask table of a pattern: the entry of byte b holds exactly the bits
\* m-1-j of the 0-based positions j with pattern[j] = b
MaskTableOf(p, masks) ==
    \A b \in Bytes :
        masks[b] = {Len(p) - x : x \in {y \in 1 .. Len(p) : p[y] = b}}

\* C8: BNDMq::new returns EmptyPattern for an empty pattern whatever q is;
\* otherwise InvalidQGramLength(q) when q = 0 or q > m; otherwise
\* PatternTooLong when m > W; otherwise a matcher holding m, q, the mask
\* table of the pattern and accept = 1 << (m-1).
C8_NewResult ==
    pc \in {"built", "failed"} /\ bndmq.tag # "None" =>
        IF Len(pattern) = 0
        THEN bndmq = [tag |-> "Err", err |-> "EmptyPattern", arg |-> 0]
        ELSE IF qgram = 0 \/ qgram > Len(pattern)
        THEN bndmq = [tag |-> "Err", err |-> "InvalidQGramLength",
                      arg |-> qgram]
        ELSE IF Len(pattern) > W
        THEN bndmq.tag = "Err" /\ bndmq.err = "PatternTooLong"
        ELSE /\ bndmq.tag = "Ok"
             /\ pc = "built"
             /\ bndmq.m = Len(pattern)
             /\ bndmq.q = qgram
             /\ MaskTableOf(pattern, bndmq.masks)
             /\ bndmq.accept = Bit(Len(pattern) - 1)

\* C8 witness: a pattern one byte longer than the word with a valid q is
\* rejected as too long
C8_Witness ==
    /\ pc = "failed"
    /\ Len(pattern) = W + 1
    /\ qgram = W
    /\ bndmq.tag = "Err"
    /\ bndmq.err = "PatternTooLong"

\* C9: for 1 <= m <= W, generate_masks returns a 256-entry table in which
\* bit (m-1-j) of masks[b] is set iff pattern[j] = b (an absent byte has
\* mask 0, no bit at index >= m is set) and accept = 1 << (m-1); for the
\* pattern "3$$X3" the entries of '3', '$', 'X' are 17, 12, 2 and accept
\* is 16.
C9_MaskTable ==
    pc = "built" /\ bndmq.tag = "Ok" =>
        /\ DOMAIN bndmq.masks = Bytes
        /\ \A b \in Bytes :
              /\ \A j \in 0 .. (Len(pattern) - 1) :
                    (Len(pattern) - 1 - j) \in bndmq.masks[b]
                        <=> pattern[j + 1] = b
              /\ \A k \in bndmq.masks[b] : k < Len(pattern)
              /\ (\A j \in 1 .. Len(pattern) : pattern[j] # b)
                    => bndmq.masks[b] = Zero
        /\ bndmq.accept = Bit(Len(pattern) - 1)
        /\ pattern = MaskTestPattern =>
              /\ WordVal(bndmq.masks[51]) = 17
              /\ WordVal(bndmq.masks[36]) = 12
              /\ WordVal(bndmq.masks[88]) = 2
              /\ WordVal(bndmq.accept) = 16

\* C9 witness: the table of "3$$X3" has been built
C9_Witness ==
    /\ pc = "built"
    /\ bndmq.tag = "Ok"
    /\ pattern = MaskTestPattern
    /\ WordVal(bndmq.masks[51]) = 17

\* C10: for a pattern of length exactly W the legacy BNDM works: find_all
\* returns exactly the naive occurrence offsets and find_match returns true
\* iff an occurrence exists.
C10_WordSizedPatternWorks ==
    pc = "built" /\ bndm.tag = "Ok" /\ Len(pattern) = W =>
        /\ all.tag # "unset" => all = [tag |-> "Ok", val |-> Naive]
        /\ found # "unset" =>
              /\ found \in {"true", "false"}
              /\ found = "true" <=> NaiveOffsets(text, pattern) # {}

----------------------------------------------------------------------------
(* Properties of the pattern preparer and of the algorithm selection *)

\* C6: whenever parse_pattern_list returns Ok the list is non-empty,
\* strictly increasing in byte-lexicographic order (hence duplicate-free)
\* and holds no empty string, under every combination of the transform
\* flags; when no non-empty pattern remains it returns an error.
C6_PreparedListStrictlySorted ==
    cli.cmd = "prepare" /\ pc \in {"prepared", "failed"} =>
        LET first == InitialList(kmer_input)
            remains == /\ first.tag = "Ok"
                       /\ \E k \in 1 .. Len(first.val) : Len(first.val[k]) > 0
        IN /\ pattern_list.tag \in {"Ok", "Err"}
           /\ pattern_list.tag = "Ok" =>
                /\ Len(pattern_list.val) > 0
                /\ \A k \in 1 .. Len(pattern_list.val) :
                      Len(pattern_list.val[k]) > 0
                /\ \A k \in 1 .. (Len(pattern_list.val) - 1) :
                      LexLess(pattern_list.val[k], pattern_list.val[k + 1])
           /\ ~remains => pattern_list.tag = "Err"
           /\ (pc = "prepared") <=> (pattern_list.tag = "Ok")

\* C6 witness: an unsorted input with an empty string, prepared with the
\* reverse complements added, came out as a list of at least two patterns
\* from which a duplicate was removed
C6_Witness ==
    /\ cli.cmd = "prepare"
    /\ pc = "prepared"
    /\ args.reverse_complement
    /\ kmer_input.source = "seq"
    /\ Len(kmer_input.list) = MaxListLen
    /\ \E k \in 1 .. Len(kmer_input.list) : Len(kmer_input.list[k]) = 0
    /\ LexLess(kmer_input.list[3], kmer_input.list[1])
    /\ Len(pattern_list.val) = 2

\* the algorithm the rule of C7 names for the parsed command line and the
\* prepared list
RuleAlgorithm ==
    IF cli.case_insensitive THEN "AhoCorasick"
    ELSE IF cli.q_size.some THEN "BNDMq"
    ELSE IF cli.aho_corasick THEN "AhoCorasick"
    ELSE IF Len(pattern_list.val) >= 14 \/ MaxPatternLen(pattern_list.val) > 64
    THEN "AhoCorasick"
    ELSE "BNDMq"

\* C7: the run builds the Aho-Corasick automaton whenever case-insensitive
\* matching is requested (even with q pinned); otherwise the BNDMq
\* collection when q is pinned and the automaton when -a is given;
\* otherwise the automaton iff the prepared list has >= 14 patterns or a
\* pattern longer than 64, and the BNDMq collection in all remaining cases.
C7_AlgorithmSelection ==
    cli.cmd \in {"extract", "tag"} =>
        /\ pc # "panic"
        /\ pc = "selected" =>
              (args.aho_corasick <=> RuleAlgorithm = "AhoCorasick")
        /\ matchers.kind # "none" => matchers.kind = RuleAlgorithm

\* C7 witness: automatic selection on exactly 14 short patterns built the
\* automaton
C7_Witness ==
    /\ cli.cmd \in {"extract", "tag"}
    /\ ~cli.case_insensitive /\ ~cli.q_size.some /\ ~cli.aho_corasick
    /\ pc = "ready"
    /\ Len(pattern_list.val) = 14
    /\ MaxPatternLen(pattern_list.val) <= 64
    /\ matchers.kind = "AhoCorasick"

----------------------------------------------------------------------------
(* Properties of the record loops *)

\* the text as the run's matcher compares it: letters folded to one case
\* when case-insensitive matching was requested
Folded(t) == IF cli.case_insensitive THEN to_lowercase(t) ELSE t

\* some pattern of the prepared list occurs in the text
AnyPatternIn(t) ==
    \E k \in 1 .. Len(pattern_list.val) :
        NaiveOffsets(Folded(t), Folded(pattern_list.val[k])) # {}

\* the records (or pairs) the loop has searched and gated
Processed ==
    IF cli.paired /\ Len(input2) < Len(input) THEN Len(input2) ELSE Len(input)

\* record k (or pair k) has at least one hit
RecordHit(k) ==
    AnyPatternIn(input[k].seq) \/ (cli.paired /\ AnyPatternIn(input2[k].seq))

\* the numbers of the processed records with hit # inv, in input order
Selected(inv) ==
    SelectSeq([k \in 1 .. Processed |-> k], LAMBDA k : RecordHit(k) # inv)

Ids(ws) == [k \in 1 .. Len(ws) |-> ws[k].id]

\* C3 as stated: in extract a record (or pair) is written iff it has at
\* least one hit XOR invert_match, so the run and the run with invert_match
\* flipped write disjoint record sets whose union is every input record
\* exactly once.
C3_WrittenIffHitXorInvert ==
    cli.cmd = "extract" /\ pc \in {"ready", "done", "failed"}
                        /\ matchers.tag = "Ok" =>
        /\ Ids(written) = Selected(cli.invert_match)
        /\ twin = Selected(~cli.invert_match)
        /\ \A k \in 1 .. Processed :
              (\E i \in 1 .. Len(written) : written[i].id = k)
                  # (\E i \in 1 .. Len(twin) : twin[i] = k)

\* C3 amended: the statement holds in every run that does not suppress its
\* output (the mates of a written pair go to the two sinks together and
\* every record is written unchanged); with suppress_output nothing is
\* written and the selected records are only counted.
C3_WrittenIffHitXorInvertUnlessSuppressed ==
    cli.cmd = "extract" /\ pc \in {"ready", "done", "failed"}
                        /\ matchers.tag = "Ok" =>
        /\ ~cli.suppress_output =>
              /\ Ids(written) = Selected(cli.invert_match)
              /\ twin = Selected(~cli.invert_match)
              /\ \A k \in 1 .. Processed :
                    (\E i \in 1 .. Len(written) : written[i].id = k)
                        # (\E i \in 1 .. Len(twin) : twin[i] = k)
              /\ \A i \in 1 .. Len(written) :
                    written[i].seq = input[written[i].id].seq
              /\ cli.paired =>
                    /\ Ids(written2) = Ids(written)
                    /\ \A i \in 1 .. Len(written2) :
                          written2[i].seq = input2[written2[i].id].seq
              /\ ~cli.paired => written2 = <<>>
        /\ cli.suppress_output =>
              written = <<>> /\ written2 = <<>> /\ twin = <<>>
        /\ counters.nb_records_extracted =
              Len(Selected(cli.invert_match)) * (IF cli.paired THEN 2 ELSE 1)

\* C3 witness: an inverted paired run has read two pairs, wrote the one
\* without a hit and left the one with a hit to the twin run
C3_Witness ==
    /\ cli.cmd = "extract"
    /\ pc = "done"
    /\ cli.paired /\ cli.invert_match /\ ~cli.suppress_output
    /\ Processed = 2
    /\ Len(written) = 1
    /\ Len(written2) = 1
    /\ Len(twin) = 1
    /\ written[1].id # twin[1]

\* the patterns of the prepared list that occur in record k of a tag run
MatchedPatterns(k) ==
    { pattern_list.val[i] : i \in { j \in 1 .. Len(pattern_list.val) :
        NaiveOffsets(Folded(input[k].seq), Folded(pattern_list.val[j])) # {} } }

\* the records of a tag run that went through process_record without an
\* error: a failed run stopped at the last record read
Completed == IF pc = "failed" THEN Len(input) - 1 ELSE Len(input)

\* the gating rule of C5 for record k
KeepRule(k) ==
    IF cli.filter_matching THEN MatchedPatterns(k) # {}
    ELSE IF cli.invert_match THEN MatchedPatterns(k) = {}
    ELSE TRUE

\* the numbers of the completed records the rule keeps, in input order
KeptIds == SelectSeq([k \in 1 .. Completed |-> k], KeepRule)

\* the entries of the value the configured tag had on record k ({} when the
\* tag was absent)
PriorEntries(k) ==
    LET old == TagsGet(input[k].tags, TagName)
    IN IF old.some
       THEN LET f == SplitComma(old.val, <<>>)
            IN {f[i] : i \in 1 .. Len(f)}
       ELSE {}

RECURSIVE SortedStringSeq(_)
\* the strings of a finite set in ascending byte order
SortedStringSeq(S) ==
    IF S = {} THEN <<>>
    ELSE LET mn == CHOOSE x \in S : \A y \in S \ {x} : LexLess(x, y)
         IN <<mn>> \o SortedStringSeq(S \ {mn})

\* the positions of the configured tag among the tags of a record
TagPositions(tags) == {i \in 1 .. Len(tags) : tags[i].name = TagName}

\* C4: in tag every written record carries the configured tag exactly once,
\* and its value is the comma-joined, sorted, duplicate-free union of the
\* entries of the record's pre-existing tag value and of the patterns newly
\* matched in the record.
C4_TagOnceWithSortedUnion ==
    cli.cmd = "tag" /\ matchers.tag = "Ok" =>
        \A i \in 1 .. Len(written) :
            LET w == written[i]
                pos == TagPositions(w.tags)
            IN /\ Cardinality(pos) = 1
               /\ \A p \in pos :
                     /\ w.tags[p].kind = "String"
                     /\ w.tags[p].val =
                          JoinComma(SortedStringSeq(PriorEntries(w.id) \cup
                                                    MatchedPatterns(w.id)))

\* C5: in tag a record is kept (tagged and, unless output is suppressed,
\* written) iff it has at least one match when filter_matching is set, it
\* has no match when invert_match is set, and always when neither is set;
\* the kept records are written in input order.
C5_KeptByRuleInInputOrder ==
    cli.cmd = "tag" /\ matchers.tag = "Ok"
                    /\ pc \in {"ready", "done", "failed"} =>
        /\ Ids(written) = IF cli.suppress_output THEN <<>> ELSE KeptIds
        /\ StrictlyIncreasing(Ids(written))
        /\ \A i \in 1 .. Len(written) :
              written[i].seq = input[written[i].id].seq
        /\ (record.id > 0 /\ record.id <= Completed) =>
              /\ record.id = Len(input)
              /\ KeepRule(record.id) =>
                    /\ Len(record.tags) = Len(input[record.id].tags) + 1
                    /\ record.tags[Len(record.tags)].name = TagName
                    /\ ~cli.suppress_output =>
                          written[Len(written)] = record
              /\ ~KeepRule(record.id) =>
                    /\ record.tags = input[record.id].tags
                    /\ \A i \in 1 .. Len(written) : written[i].id # record.id

\* C5 witness: a run with filter_matching read a record without a match and
\* then one with a match, dropped the first and tagged and wrote the second
C5_Witness ==
    /\ cli.cmd = "tag"
    /\ pc = "done"
    /\ cli.filter_matching /\ ~cli.suppress_output
    /\ Len(input) = 2
    /\ MatchedPatterns(1) = {}
    /\ MatchedPatterns(2) # {}
    /\ Len(written) = 1
    /\ written[1].id = 2
    /\ record = written[1]
    /\ TagPositions(record.tags) # {}

\* C11: in paired extract a run never completes when the two files yield
\* different numbers of records.  When file 2 still yields a record after
\* file 1 is exhausted the run fails after the loop, with every pair searched,
\* counted and (unless output is suppressed) written by the gate; when file 2
\* is exhausted first the run fails at the first record of file 1 that has
\* no mate, and that record is neither searched, counted nor written.
C11_PairLengthMismatchFails ==
    cli.cmd = "extract" /\ cli.paired /\ matchers.tag = "Ok" =>
        /\ pc \in {"ready", "done", "panic"} => Len(input) = Len(input2)
        /\ Len(input) # Len(input2) => pc = "failed"
        /\ Len(input2) > Len(input) =>
              /\ Len(input2) = Len(input) + 1
              /\ Processed = Len(input)
              /\ logging_active(cli) =>
                    counters.nb_records_tot = 2 * Len(input)
              /\ counters.nb_records_extracted =
                    2 * Len(Selected(cli.invert_match))
              /\ ~cli.suppress_output =>
                    /\ Ids(written) = Selected(cli.invert_match)
                    /\ Ids(written2) = Selected(cli.invert_match)
        /\ Len(input) > Len(input2) =>
              /\ Len(input) = Len(input2) + 1
              /\ Processed = Len(input2)
              /\ logging_active(cli) =>
                    counters.nb_records_tot = 2 * Len(input2)
              /\ \A i \in 1 .. Len(events) : events[i].rec <= Len(input2)
              /\ \A i \in 1 .. Len(written) : written[i].id <= Len(input2)
              /\ ~cli.suppress_output =>
                    Ids(written) = Selected(cli.invert_match)

\* C11 witness: file 2 held a third record after the two pairs of the run
\* were searched and one of them was written; the run failed after the loop
C11_Witness ==
    /\ cli.cmd = "extract" /\ cli.paired
    /\ pc = "failed"
    /\ Len(input) = 2
    /\ Len(input2) = 3
    /\ Len(written) = 1
    /\ Len(written2) = 1
    /\ logging_active(cli) /\ counters.nb_records_tot = 4


\* pattern k of the prepared list occurs in the text
PatternIn(k, t) ==
    NaiveOffsets(Folded(t), Folded(pattern_list.val[k])) # {}

\* the number of processed records (of both files in a paired run) in which
\* pattern k occurs
RecordsWith(k) ==
    Cardinality({i \in 1 .. Processed : PatternIn(k, input[i].seq)})
    + (IF cli.paired
       THEN Cardinality({i \in 1 .. Processed : PatternIn(k, input2[i].seq)})
       ELSE 0)

\* C12: in extract each record adds at most 1 to the hit counter of a
\* pattern, and 1 iff the pattern occurs in it, with either algorithm: in a
\* logging run the counter of every pattern equals the number of processed
\* records in which the pattern occurs.
C12_PatternCountedOncePerRecord ==
    cli.cmd = "extract" /\ matchers.tag = "Ok" /\ logging_active(cli)
                        /\ pc \in {"ready", "done", "failed"} =>
        \A k \in 1 .. Len(pattern_list.val) :
            counters.pattern_hit_counts[k] = RecordsWith(k)

RECURSIVE HitPositions(_, _)
\* the number of positions at which pattern k occurs in the first n records
\* of a tag run
HitPositions(k, n) ==
    IF n = 0 THEN 0
    ELSE HitPositions(k, n - 1)
         + Cardinality(NaiveOffsets(Folded(input[n].seq),
                                    Folded(pattern_list.val[k])))

\* the events of the text logger that name pattern k
EventsOf(k) == {i \in 1 .. Len(events) : events[i].pattern = k}

\* C13: in tag with logging active each record adds to the counter of a
\* pattern the number of positions at which the pattern occurs in it, with
\* either algorithm, and one event per hit goes to the loggers: the counter
\* of every pattern and the number of its events equal the number of its hit
\* positions in the records processed.
C13_TagCountsEveryHitPosition ==
    cli.cmd = "tag" /\ matchers.tag = "Ok" /\ logging_active(cli)
                    /\ pc \in {"ready", "done"} =>
        \A k \in 1 .. Len(pattern_list.val) :
            /\ Cardinality(EventsOf(k)) = HitPositions(k, Len(input))
            /\ counters.pattern_hit_counts[k] = HitPositions(k, Len(input))

\* C15: after BufferedLogger::flush returns the buffer is empty, whether or
\* not the logger has a sink, and so after log_record / log_fields returns
\* the buffer holds fewer bytes than the flush threshold.
C15_FlushEmptiesBuffer ==
    logger.state = "live" =>
        /\ lcall.name = "flush" => logger.buffer = <<>>
        /\ lcall.name \in {"log_record", "log_fields"} =>
              Len(logger.buffer) < logger.buffer_size

----------------------------------------------------------------------------
(* Properties of the loggers *)

\* the literal that closes the preceding part of the document and opens the
\* section of the name
KeyLiteral(name) ==
    CASE name = "meta_information" ->
             Lit("  ],\n  \"meta_information\": ", 27)
      [] name = "paired_end_reads_statistics" ->
             Lit(",\n  \"paired_end_reads_statistics\": ", 35)
      [] name = "pattern_hit_counts" ->
             Lit(",\n  \"pattern_hit_counts\": ", 26)
      [] name = "summary_statistics" ->
             Lit(",\n  \"summary_statistics\": ", 26)

RECURSIVE SectionPieces(_)
\* the sections of the names, each as its key literal and its value
SectionPieces(names) ==
    IF Len(names) = 0 THEN <<>>
    ELSE << KeyLiteral(names[1]), [text |-> "value", value |-> names[1]] >>
         \o SectionPieces(Tail(names))

\* the pieces written, the values without their lengths
Written(pieces) ==
    [k \in 1 .. Len(pieces) |->
        IF pieces[k].text = "value"
        THEN [text |-> "value", value |-> pieces[k].value]
        ELSE pieces[k]]

RECURSIVE MatchPieces(_)
\* the emitted match objects, separated by ",\n"
MatchPieces(evs) ==
    IF Len(evs) = 0 THEN <<>>
    ELSE IF Len(evs) = 1 THEN <<evs[1]>>
    ELSE <<evs[1], Separator>> \o MatchPieces(Tail(evs))

\* the document with the emitted matches and the sections in the order of
\* the claim, with or without the section of the paired-end statistics
Document(withPairedSection) ==
    <<OpenArray>> \o MatchPieces(jevents)
    \o SectionPieces(<<"meta_information">>
                     \o (IF withPairedSection
                         THEN <<"paired_end_reads_statistics">> ELSE <<>>)
                     \o <<"pattern_hit_counts", "summary_statistics">>)
    \o <<Lit("\n}\n", 3)>>

\* what has reached the sink is the beginning of what the logger was given
JsonPrefixWhileLive ==
    json_logger.state = "live" /\ json_logger.writer =>
        json_sink \o json_logger.buffer = <<OpenArray>> \o MatchPieces(jevents)

\* C14 as stated: the document written over Open, Emit*, Finalize is the
\* array opening, the emitted match objects, the array close and then the
\* sections "meta_information", "paired_end_reads_statistics" only if the
\* run is paired, "pattern_hit_counts", "summary_statistics" and the closing
\* brace; nothing is written after Finalize.
C14_JsonDocumentPairedOnlyIfPaired ==
    /\ JsonPrefixWhileLive
    /\ json_logger.state = "finalized" /\ json_logger.writer =>
          Written(json_sink) = Document(cli.paired)

\* C14 amended: the section "paired_end_reads_statistics" is written exactly
\* when finalize is handed the statistics, which extract does in every run,
\* paired or not, and tag never does; all else as stated.
C14_JsonDocumentPairedSectionInExtract ==
    /\ JsonPrefixWhileLive
    /\ json_logger.state = "finalized" /\ json_logger.writer =>
          Written(json_sink) = Document(cli.cmd = "extract")
    /\ json_logger.state = "finalized" /\ ~json_logger.writer =>
          json_sink = <<>>

\* C14 witness: an extract run on one file logged two matches and was
\* finalized; its document holds the paired-end section
C14_Witness ==
    /\ cli.cmd = "extract" /\ ~cli.paired
    /\ json_logger.state = "finalized" /\ json_logger.writer
    /\ Len(jevents) = 2
    /\ lcall.n = 2
    /\ Len(json_sink) = 13
    /\ json_sink[6].text = "value"
    /\ json_sink[6].value = "meta_information"
    /\ json_sink[8].value = "paired_end_reads_statistics"
    /\ json_sink[10].value = "pattern_hit_counts"
    /\ json_sink[12].value = "summary_statistics"

\* C16: with the text and the JSON logger both active the two receive the
\* same match events in the same order, in extract and in tag and with
\* either algorithm; each logger's summary is written once, when the record
\* loop has completed, and not before.
C16_LoggersAgree ==
    cli.cmd \in {"extract", "tag"} /\ cli.out_log /\ cli.json_log =>
        /\ events = jevents
        /\ pc = "done" => summary = [text |-> 1, json |-> 1]
        /\ pc # "done" => summary = [text |-> 0, json |-> 0]

\* C16 witness: a completed run with both loggers gave each of them the same
\* two or more events and then wrote both summaries
C16_Witness ==
    /\ cli.cmd \in {"extract", "tag"} /\ cli.out_log /\ cli.json_log
    /\ pc = "done"
    /\ Len(events) >= 2
    /\ jevents = events
    /\ summary = [text |-> 1, json |-> 1]

\* the arrival rank of the record an event names: pair by pair, the record
\* of file 1 before its mate of file 2
Arrival(e) == 2 * e.rec + e.file

\* C17: the match events of extract are ordered by record arrival: the
\* events of one record are contiguous and precede every event of a record
\* that arrives later, in single-file and in paired runs and with either
\* algorithm.
C17_EventsInArrivalOrder ==
    cli.cmd = "extract" =>
        \A i \in 1 .. Len(events) : \A j \in i + 1 .. Len(events) :
            Arrival(events[i]) <= Arrival(events[j])

----------------------------------------------------------------------------
(* Properties of the argument validation *)

\* a log flag holds the STDOUT sentinel
Sentinel(p) == p = Some(STDOUT)

\* C18: check_log_flag_conflict returns an error exactly when both out_log
\* and json_log are the STDOUT sentinel, or at least one of them is while no
\* output file is given and suppress_output is false; otherwise it returns Ok.
C18_LogFlagConflict ==
    pc = "checked" =>
        (outcome.check.tag = "Err" <=>
            \/ Sentinel(flags.out_log) /\ Sentinel(flags.json_log)
            \/ /\ Sentinel(flags.out_log) \/ Sentinel(flags.json_log)
               /\ flags.out_file = None
               /\ ~flags.suppress_output)

\* C18 witness: one log to stdout, no output file and no suppress_output
\* gave an error
C18_Witness ==
    /\ pc = "checked"
    /\ Sentinel(flags.out_log)
    /\ flags.json_log = None
    /\ flags.out_file = None
    /\ ~flags.suppress_output
    /\ outcome.check.tag = "Err"

\* a log is requested on the command line
LogRequested == flags.out_log.some \/ flags.json_log.some

\* the run went through the parser and, when parsed, through the flag check
Validated == pc \in {"rejected", "accepted"}

\* C19 as stated: a run with suppress_output is rejected with an argument
\* error when no log is requested, is rejected when an output path is given,
\* and is accepted when at least one log is requested and no output path is
\* given.
C19_SuppressAcceptedWithAnyLog ==
    flags.suppress_output /\ Validated =>
        /\ ~LogRequested => pc = "rejected" /\ outcome.clap = "Err"
        /\ flags.out_file.some => pc = "rejected" /\ outcome.clap = "Err"
        /\ LogRequested /\ ~flags.out_file.some => pc = "accepted"

\* C19 amended: as stated, except that a run with suppress_output, a log and
\* no output path passes the parser and is then accepted unless both logs
\* are directed to stdout, which check_log_flag_conflict rejects.
C19_SuppressAcceptedUnlessBothStdout ==
    flags.suppress_output /\ Validated =>
        /\ ~LogRequested => pc = "rejected" /\ outcome.clap = "Err"
        /\ flags.out_file.some => pc = "rejected" /\ outcome.clap = "Err"
        /\ LogRequested /\ ~flags.out_file.some =>
              /\ outcome.clap = "Ok"
              /\ pc = "accepted" <=>
                    ~(Sentinel(flags.out_log) /\ Sentinel(flags.json_log))

\* C19 witness: -S with a JSON log to a file and no output path was accepted
C19_Witness ==
    /\ flags.suppress_output
    /\ flags.out_log = None
    /\ flags.json_log = Some(<<102>>)
    /\ flags.out_file = None
    /\ pc = "accepted"
    /\ outcome.clap = "Ok"
    /\ outcome.check.tag = "Ok"

----------------------------------------------------------------------------
(* Properties of the reverse-complement augmentation *)

\* the non-empty input patterns after the case conversion
FoldedInputs ==
    LET sq == CaseFolded(InitialList(kmer_input).val, cli.lowercase,
                         cli.uppercase)
    IN {sq[k] : k \in 1 .. Len(sq)} \ {<<>>}

\* the patterns of the prepared list
PreparedSet == {pattern_list.val[k] : k \in 1 .. Len(pattern_list.val)}

\* the text read from its end with every base exchanged for its partner
ReverseComplementOf(p) ==
    [k \in 1 .. Len(p) |->
        LET b == p[Len(p) + 1 - k]
        IN CASE b = 65 -> 84 [] b = 84 -> 65 [] b = 67 -> 71 [] b = 71 -> 67
             [] b = 97 -> 116 [] b = 116 -> 97 [] b = 99 -> 103
             [] b = 103 -> 99 [] OTHER -> b]

\* C20: with reverse_complement and without canonical the prepared list is
\* the sorted, duplicate-free union of the case-folded input patterns and
\* their reverse complements, so it is closed under reverse complement and a
\* self-complementary or repeated pattern appears once.
C20_ReverseComplementUnion ==
    pc = "prepared" /\ cli.cmd = "prepare" /\ cli.reverse_complement
                    /\ ~cli.canonical =>
        /\ PreparedSet =
              FoldedInputs \cup {ReverseComplementOf(p) : p \in FoldedInputs}
        /\ \A i \in 1 .. Len(pattern_list.val) - 1 :
              LexLess(pattern_list.val[i], pattern_list.val[i + 1])
        /\ \A p \in PreparedSet : ReverseComplementOf(p) \in PreparedSet

\* C20 witness: "AC" given twice and the self-complementary "AT" were
\* prepared to "AC", "AT", "GT"
C20_Witness ==
    /\ pc = "prepared" /\ cli.cmd = "prepare"
    /\ cli.reverse_complement /\ ~cli.canonical
    /\ Len(kmer_input.list) = 3
    /\ FoldedInputs = { <<65, 67>>, <<65, 84>> }
    /\ pattern_list.val = << <<65, 67>>, <<65, 84>>, <<71, 84>> >>

----------------------------------------------------------------------------
(* Properties of the tuner *)

\* the q of the table for a pattern length, 0 for an error
TableQ(len) ==
    CASE len \in 0 .. 1 -> 1
      [] len \in 2 .. 3 -> 2
      [] len \in 4 .. 8 -> 3
      [] len \in 9 .. 30 -> 4
      [] len \in 31 .. 55 -> 5
      [] len \in 56 .. 64 -> 6
      [] OTHER -> 0

\* C21: tune_q_value maps the pattern length to q as the table says: 0-1 to
\* 1, 2-3 to 2, 4-8 to 3, 9-30 to 4, 31-55 to 5, 56-64 to 6, and every
\* length from 65 on to an error; it answers for every length and gives the
\* same answer when called again.
C21_TuneQValueTable ==
    pc = "tuned" =>
        /\ tuned.tag \in {"Ok", "Err"}
        /\ tuned.tag = "Err" <=> Len(pattern) >= 65
        /\ tuned.tag = "Ok" => tuned.val = TableQ(Len(pattern))
        /\ tuned = tune_q_value(Len(pattern))

\* C21 witness: the 31-letter pattern of the repository's test got q = 5,
\* twice
C21_Witness ==
    /\ pc = "tuned"
    /\ Len(pattern) = 31
    /\ calls = 2
    /\ tuned = [tag |-> "Ok", val |-> 5]

----------------------------------------------------------------------------
(* Properties of the exclusion of reverse_complement and canonical *)

\* the smaller of a pattern and its reverse complement
CanonicalOf(p) ==
    IF LexLess(ReverseComplementOf(p), p) THEN ReverseComplementOf(p) ELSE p

\* C22 as stated: a call of parse_pattern_list with reverse_complement and
\* canonical both true is rejected instead of producing a pattern list.
C22_BothFlagsRejectedByPreparer ==
    /\ cli.cmd = "prepare"
    /\ pc \in {"prepared", "failed"}
    /\ cli.reverse_complement
    /\ cli.canonical
    => pattern_list.tag = "Err"

\* C22 amended: the pair of flags is excluded by the argument parser, so a
\* driver never calls the preparer with both; parse_pattern_list itself
\* takes any combination: with one of the flags or with both it fails only
\* when no non-empty pattern remains, and with both it returns the canonical
\* forms of the case-folded inputs, as with canonical alone.
C22_BothFlagsRejectedByParserOnly ==
    /\ cli.cmd \in {"extract", "tag"} /\ cli.reverse_complement
                                      /\ cli.canonical
          => pc \in {"cli", "rejected"}
    /\ cli.cmd \in {"extract", "tag"} /\ pc = "rejected"
                                      /\ KmersGroup(kmer_input)
          => ~ClapGroups(cli)
    /\ cli.cmd = "prepare" /\ pc \in {"prepared", "failed"}
                           /\ kmer_input.source \in {"file", "seq"}
                           /\ (cli.reverse_complement \/ cli.canonical)
          => /\ pattern_list.tag = "Ok" <=>
                   (InitialList(kmer_input).tag = "Ok" /\ FoldedInputs # {})
             /\ pattern_list.tag = "Ok" /\ cli.canonical
                   => PreparedSet = {CanonicalOf(p) : p \in FoldedInputs}

\* C22 witness: the preparer called with both flags on "GT" returned "AC",
\* and no error
C22_Witness ==
    /\ cli.cmd = "prepare"
    /\ pc = "prepared"
    /\ cli.reverse_complement
    /\ cli.canonical
    /\ kmer_input.list = << <<71, 84>> >>
    /\ pattern_list = [tag |-> "Ok", val |-> << <<65, 67>> >>]

----------------------------------------------------------------------------
(* Properties of the event order inside a record *)

\* two events belong to the same record of the same file
SameRecord(x, y) == x.file = y.file /\ x.rec = y.rec

\* C23: in extract with BNDMq and logging active, of two events of the same
\* record the earlier one has the smaller pattern index in the prepared
\* list, or the same pattern and a strictly smaller start offset.
C23_RecordEventsByPatternThenOffset ==
    cli.cmd = "extract" /\ matchers.kind = "BNDMq" /\ logging_active(cli) =>
        \A i \in 1 .. Len(events) : \A j \in (i + 1) .. Len(events) :
            SameRecord(events[i], events[j]) =>
                \/ events[i].pattern < events[j].pattern
                \/ /\ events[i].pattern = events[j].pattern
                   /\ events[i].pos < events[j].pos

\* C23 witness: a paired BNDMq run with a log searched "ACA" in file 2 for
\* "A" and "AC" and logged A at 0, A at 2 and AC at 0, in this order
C23_Witness ==
    /\ cli.cmd = "extract" /\ matchers.kind = "BNDMq" /\ cli.out_log
    /\ cli.paired
    /\ pc = "ready"
    /\ LET mine == SelectSeq(events, LAMBDA e : e.file = 2 /\ e.rec = 1)
       IN mine = << [file |-> 2, rec |-> 1, pattern |-> 1, pos |-> 0],
                    [file |-> 2, rec |-> 1, pattern |-> 1, pos |-> 2],
                    [file |-> 2, rec |-> 1, pattern |-> 2, pos |-> 0] >>

----------------------------------------------------------------------------
(* Properties of the text log of a run *)

\* the header block of the run, as bytes
HeaderBlock == Concat(HeaderLines(cli, pattern_list.val))

\* the match lines logged so far, in the order they were logged
MatchLines == Concat(logger.records)

\* C24: in the text log sink of a run the bytes are the header block, then
\* the match lines in the order they were logged, each once, then (in a
\* successful run) the summary block; before the summary the sink and the
\* buffer together hold the header block and every logged line, and no
\* match line follows a summary line.
C24_TextLogOrder ==
    cli.cmd = "extract" /\ cli.out_log /\ logger # NoLogger =>
        /\ Len(logger.records) = Len(events)
        /\ pc \in {"selected", "ready", "failed"} =>
              log_sink \o logger.buffer = HeaderBlock \o MatchLines
        /\ pc = "done" =>
              /\ logger.buffer = <<>>
              /\ log_sink = HeaderBlock \o MatchLines
                    \o Concat(SummaryLines(cli, pattern_list.val, counters))

\* C24 witness: a successful run logged three long lines, which reached
\* the sink from the full buffer during the loop, and then shorter ones,
\* which reached it only with the flush in front of the summary
C24_Witness ==
    /\ cli.cmd = "extract" /\ cli.out_log
    /\ pc = "done"
    /\ Len(input) = 2
    /\ Len(logger.records) > 3
    /\ Len(logger.records[1]) + Len(logger.records[2])
          + Len(logger.records[3]) >= LogBufferSize
    /\ Len(logger.records[1]) + Len(logger.records[2]) < LogBufferSize
    /\ Len(log_sink) > Len(HeaderBlock \o MatchLines)

----------------------------------------------------------------------------
(* Properties of the scan of BNDMq: indices, shifts and termination *)

\* C25: for every constructed BNDMq matcher and every text, no step of
\* find_iter / next, find_all or find_match reads the text outside [0, n),
\* lets an index computation (i-1, i+ii, j-1, n-q+1, i-(m-q+1)) underflow or
\* shifts by W or more: no call ends in a panic, the iterator position never
\* is below m-q+1, and every yielded offset leaves room for the pattern.
C25_ScanStaysInsideText ==
    pc = "built" /\ bndmq.tag = "Ok" =>
        /\ lastItem # "Panic"
        /\ found # "panic"
        /\ all.tag # "Panic"
        /\ bndmq.q >= 1 /\ bndmq.q <= bndmq.m /\ bndmq.m <= W
        /\ iter.live => /\ iter.n = Len(text)
                        /\ iter.i >= bndmq.m - bndmq.q + 1
        /\ \A k \in 1 .. Len(yielded) : yielded[k] + bndmq.m <= Len(text)

\* C25 witness: a pattern of W letters was found at offset 0 of a text by
\* next and by find_match, and the iterator ran to its end
C25_Witness ==
    /\ pc = "built"
    /\ Len(pattern) = W
    /\ qgram = W
    /\ yielded = <<0>>
    /\ lastItem = "None"
    /\ found = "true"

RECURSIVE ScanLength(_, _, _, _)
\* the number of passes through the inner loop of next from the state c
ScanLength(b, t, first, c) ==
    IF c.item # "Run" THEN 0
    ELSE 1 + ScanLength(b, t, first, NextScanStep(b, t, first, c))

RECURSIVE WindowTrace(_, _, _, _)
\* the outer iterations of one call of next from position i: the value of
\* self.i at the head of each and the passes of its inner loop
WindowTrace(b, t, i, n) ==
    IF ~(i <= n - b.q + 1) THEN <<>>
    ELSE LET seed == Seed(b, t, i)
             c == [item |-> "Run", value |-> 0, i |-> i, j |-> i,
                   state |-> seed[2]]
             first == i - (b.m - b.q + 1)
         IN IF seed[2] = Zero
            THEN <<[i |-> i, steps |-> 0]>> \o
                 WindowTrace(b, t, i + (b.m - b.q + 1), n)
            ELSE <<[i |-> i, steps |-> ScanLength(b, t, first, c)]>> \o
                 (IF NextScan(b, t, first, c).item = "Break"
                  THEN WindowTrace(b, t, NextScan(b, t, first, c).i
                                            + (b.m - b.q + 1), n)
                  ELSE <<>>)

\* the outer iterations of the call of next that the iterator is ready for
CallTrace ==
    IF bndmq.m > iter.n THEN <<>>
    ELSE WindowTrace(bndmq, text, iter.i, iter.n)

\* what holds of the iterator between the calls of next
IteratorBounded ==
    pc = "built" /\ iter.live /\ lastItem # "Panic" =>
        /\ Len(yielded) <= Max({0, Len(text) - bndmq.m + 1})
        /\ lastItem = "Some" => calls = Len(yielded)
        /\ \E tr \in {CallTrace} :
              /\ Len(tr) <= Len(text) + 1
              /\ \A k \in 1 .. Len(tr) :
                    /\ tr[k].steps <= bndmq.m - bndmq.q + 1
                    /\ k < Len(tr) => tr[k].i < tr[k + 1].i

\* what holds of one call of next
NextCallAdvances ==
    calls' = calls + 1 =>
        /\ lastItem' \in {"Some", "None"}
        /\ lastItem' = "Some" => iter'.i > iter.i
        /\ iter'.i >= iter.i
        /\ lastItem = "None" =>
              /\ lastItem' = "None"
              /\ iter' = iter
              /\ yielded' = yielded

\* C26: every call of next returns; the iterator answers None after at most
\* n-m+1 matches, so after finitely many calls; self.i strictly increases
\* from one outer iteration to the next and from one yielded match to the
\* next; the inner scan of a window takes at most m-q+1 passes; and after
\* None every further call answers None.
C26_NextTerminates == []IteratorBounded /\ [][NextCallAdvances]_vars

\* C26 witness: an iterator yielded two matches, answered None and was
\* called again
C26_Witness ==
    /\ pc = "built"
    /\ Len(yielded) >= 2
    /\ lastItem = "None"
    /\ calls >= Len(yielded) + 2
    /\ bndmq.q < bndmq.m

----------------------------------------------------------------------------
(* Properties of the matcher construction under automatic selection *)

\* the run was started without -q, -a and -i
Automatic ==
    /\ cli.cmd \in {"extract", "tag"}
    /\ ~cli.q_size.some
    /\ ~cli.aho_corasick
    /\ ~cli.case_insensitive

\* C27: under automatic selection, whenever BNDMq is chosen every prepared
\* pattern has a length in 1 .. 64 and its tuned q lies in 1 .. length, so
\* tune_q_value does not fail, BNDMq::new succeeds for every pattern and the
\* matcher construction neither fails nor panics.
C27_AutomaticBNDMqConstructs ==
    Automatic /\ pc \in {"selected", "ready", "failed", "panic"}
              /\ ~args.aho_corasick =>
        /\ \A k \in 1 .. Len(pattern_list.val) :
              LET len == Len(pattern_list.val[k])
              IN /\ len \in 1 .. 64
                 /\ tune_q_value(len).tag = "Ok"
                 /\ tune_q_value(len).val \in 1 .. len
                 /\ BNDMqNew(pattern_list.val[k],
                             tune_q_value(len).val).tag = "Ok"
        /\ pc \in {"selected", "ready"}
        /\ pc = "ready" =>
              /\ matchers.kind = "BNDMq"
              /\ matchers.tag = "Ok"
              /\ Len(matchers.coll) = Len(pattern_list.val)
              /\ \A k \in 1 .. Len(matchers.coll) :
                    /\ matchers.coll[k].m = Len(pattern_list.val[k])
                    /\ matchers.coll[k].q =
                          tune_q_value(Len(pattern_list.val[k])).val

\* C27 witness: automatic selection on 13 patterns, the longest of 64
\* letters, built the BNDMq collection; the long pattern got q = 6
C27_Witness ==
    /\ Automatic
    /\ pc = "ready"
    /\ matchers.kind = "BNDMq"
    /\ Len(pattern_list.val) = 13
    /\ \E k \in 1 .. 13 : matchers.coll[k].m = 64 /\ matchers.coll[k].q = 6

----------------------------------------------------------------------------
(* Properties of the run counters *)

\* the counters of the run have been set up
Counting ==
    /\ cli.cmd \in {"extract", "tag"}
    /\ logging_active(cli)
    /\ matchers.tag = "Ok"
    /\ pc \in {"ready", "done", "failed"}

\* what holds of the counters after each record
CountersMatchEvents ==
    Counting =>
        /\ counters.nb_hits_tot[1] + counters.nb_hits_tot[2] = Len(events)
        /\ counters.nb_hits_tot[1] =
              Cardinality({i \in 1 .. Len(events) : events[i].file = 1})
        /\ counters.nb_records_hit[1] + counters.nb_records_hit[2]
              <= counters.nb_records_tot
        /\ counters.nb_records_tot <= Len(input) + Len(input2)

\* no counter of the run gets smaller in a step
CountersGrow ==
    Counting /\ Counting' =>
        /\ counters'.nb_records_tot >= counters.nb_records_tot
        /\ counters'.nb_bases >= counters.nb_bases
        /\ counters'.nb_records_extracted >= counters.nb_records_extracted
        /\ \A f \in {1, 2} :
              /\ counters'.nb_hits_tot[f] >= counters.nb_hits_tot[f]
              /\ counters'.nb_records_hit[f] >= counters.nb_records_hit[f]
        /\ \A k \in 1 .. Len(counters.pattern_hit_counts) :
              counters'.pattern_hit_counts[k] >=
                 counters.pattern_hit_counts[k]

\* C28: with logging active, after each record (or pair) the total-hits
\* counter (file-1 plus file-2 part) equals the number of match events handed
\* to the text logger so far, the records-with-hit counter does not exceed
\* the records-scanned counter, and no counter of the run ever decreases, in
\* extract and in tag and with either algorithm.
C28_CountersAgreeWithEvents == []CountersMatchEvents /\ [][CountersGrow]_vars

\* C28 witness: a paired extract run with the automaton and a log counted
\* hits in both files of two pairs, as many as it logged events
C28_Witness ==
    /\ Counting
    /\ cli.cmd = "extract" /\ cli.paired
    /\ matchers.kind = "AhoCorasick"
    /\ Len(input) = 2
    /\ counters.nb_hits_tot[1] >= 2
    /\ counters.nb_hits_tot[2] >= 2
    /\ counters.nb_records_hit[1] + counters.nb_records_hit[2] = 4
    /\ Len(events) = counters.nb_hits_tot[1] + counters.nb_hits_tot[2]

----------------------------------------------------------------------------
(* Properties of the output across runs: logging and algorithm *)

\* the options of the run with both logs switched on or off
WithLogging(a, on) == [a EXCEPT !.out_log = on, !.json_log = FALSE]

RECURSIVE ExtractOutput(_, _, _, _)
\* the records extract writes to its first output for the records processed
\* so far, under the options a and the matchers ms; the run ends at a
\* record whose search or whose logging panics
ExtractOutput(a, ms, k, acc) ==
    IF k > Processed THEN acc
    ELSE LET r == IF a.paired
                  THEN ScanPair(a, ms, pattern_list.val, k, input[k].seq,
                                input2[k].seq, ZeroCounters(Len(pattern_list.val)))
                  ELSE ScanSingle(a, ms, pattern_list.val, k, input[k].seq,
                                  ZeroCounters(Len(pattern_list.val)))
             id2 == IF a.paired THEN input2[k].id ELSE input[k].id
         IN IF r.panic
               \/ Len(LoggedPrefix(r.events, input[k].id, id2)) < Len(r.events)
            THEN acc
            ELSE ExtractOutput(a, ms, k + 1,
                   IF Extracted(r.found_occ, a.invert_match)
                      /\ ~a.suppress_output
                   THEN Append(acc, k) ELSE acc)

RECURSIVE TagOutput(_, _, _, _)
\* the records tag writes for the records read so far, under the options a
\* and the matchers ms; the run ends at a record whose search or whose
\* logging panics and at a record whose tag cannot be merged
TagOutput(a, ms, k, acc) ==
    IF k > Len(input) THEN acc
    ELSE LET r == ScanTag(a, ms, pattern_list.val, k, input[k].seq,
                          ZeroCounters(Len(pattern_list.val)))
             mg == TagMerge(input[k].tags, r.kmers_found)
             keep == should_keep(a, r.kmers_found)
         IN IF r.panic
               \/ Len(LoggedPrefix(r.events, input[k].name, input[k].name))
                     < Len(r.events)
            THEN acc
            ELSE IF keep /\ mg.tag = "Err" THEN acc
            ELSE TagOutput(a, ms, k + 1,
                   IF keep /\ ~a.suppress_output
                   THEN Append(acc, [id |-> k, seq |-> input[k].seq,
                                     tags |-> mg.tags])
                   ELSE acc)

\* the run has built its matchers and is in or after its record loop
InLoop ==
    /\ cli.cmd \in {"extract", "tag"}
    /\ matchers.tag = "Ok"
    /\ pc \in {"ready", "done", "failed"}

\* C29: the records a run writes do not depend on whether logging is
\* active: what a run has written (without -S, which needs a log) is what
\* the same run writes with logging on and what it writes with logging off,
\* in extract (same records, same order, both outputs of a paired run) and
\* in tag (same records with the same tags).
C29_OutputIndependentOfLogging ==
    InLoop /\ ~cli.suppress_output =>
        IF cli.cmd = "extract"
        THEN /\ Ids(written) = ExtractOutput(WithLogging(args, TRUE),
                                             matchers, 1, <<>>)
             /\ Ids(written) = ExtractOutput(WithLogging(args, FALSE),
                                             matchers, 1, <<>>)
             /\ \A k \in 1 .. Len(written) :
                   written[k].seq = input[written[k].id].seq
             /\ cli.paired =>
                   /\ Ids(written2) = Ids(written)
                   /\ \A k \in 1 .. Len(written2) :
                         written2[k].seq = input2[written2[k].id].seq
        ELSE /\ written = TagOutput(WithLogging(args, TRUE), matchers, 1,
                                    <<>>)
             /\ written = TagOutput(WithLogging(args, FALSE), matchers, 1,
                                    <<>>)

\* the matchers of the run had it taken the automaton (TRUE) or the BNDMq
\* collection (FALSE)
MatchersUnder(ac) ==
    BuildMatcherSet([args EXCEPT !.aho_corasick = ac], pattern_list.val)

\* C30: for case-sensitive matching with every pattern no longer than W, the
\* algorithm does not change the output: what the run has written is what it
\* writes under the BNDMq collection and what it writes under the
\* Aho-Corasick automaton, in extract (same records) and in tag (same
\* records with the same tag values).
C30_OutputIndependentOfAlgorithm ==
    InLoop /\ ~cli.case_insensitive
           /\ MaxPatternLen(pattern_list.val) <= W
           /\ MatchersUnder(FALSE).tag = "Ok" =>
        IF cli.cmd = "extract"
        THEN /\ Ids(written) = ExtractOutput(args, MatchersUnder(TRUE), 1,
                                             <<>>)
             /\ Ids(written) = ExtractOutput(args, MatchersUnder(FALSE), 1,
                                             <<>>)
             /\ cli.paired => Ids(written2) = Ids(written)
        ELSE /\ written = TagOutput(args, MatchersUnder(TRUE), 1, <<>>)
             /\ written = TagOutput(args, MatchersUnder(FALSE), 1, <<>>)

\* C30 witness: a tag run with the automaton wrote the record "ACA" tagged
\* "A,AC"; the automaton reported three matches there, the BNDMq collection
\* reports two patterns
C30_Witness ==
    /\ InLoop
    /\ cli.cmd = "tag"
    /\ ~cli.case_insensitive
    /\ matchers.kind = "AhoCorasick"
    /\ MatchersUnder(FALSE).tag = "Ok"
    /\ Len(written) >= 1
    /\ written[1].seq = <<65, 67, 65>>
    /\ \E k \in 1 .. Len(written[1].tags) :
          written[1].tags[k].val = <<65, 44, 65, 67>>
    /\ Len(ScanTag(args, matchers, pattern_list.val, 1, written[1].seq,
                   ZeroCounters(Len(pattern_list.val))).kmers_found) = 3
    /\ Len(ScanTag(args, MatchersUnder(FALSE), pattern_list.val, 1,
                   written[1].seq,
                   ZeroCounters(Len(pattern_list.val))).kmers_found) = 2

============================================================================
